---------------------------- MODULE Spec2Model ----------------------------
(***************************************************************************)
(* RJFireWall: a stateful packet filter with source NAT.                   *)
(*                                                                         *)
(* The model follows the kernel module: the filter rule chain              *)
(* (addIPRuleToChain, delIPRuleFromChain, matchIPRules), the connection    *)
(* table (searchNode, insertNode, eraseNode, hasConn, addConn, setConnNAT, *)
(* getNewNATPort, eraseConnRelated, rollConn), the three netfilter hooks   *)
(* (hook_main, hook_nat_in, hook_nat_out) and the netlink dispatcher       *)
(* (dealAppMessage).                                                       *)
(*                                                                         *)
(* The red-black tree connRoot is held as the sequence of its nodes in     *)
(* key order (what rb_first/rb_next walk); the descent of searchNode and   *)
(* insertNode is the binary search over that sequence.  IPv4 addresses are *)
(* 8-bit values (a 4-bit network and a 4-bit host part): no address        *)
(* arithmetic overflows in the code.  Ports keep their 16 bits.  One       *)
(* jiffy is one second (HZ = 1).                                           *)
(***************************************************************************)
EXTENDS Integers, Sequences, FiniteSets, TLC

\* ------------------------------------------------------------ constants --

NF_DROP == 0
NF_ACCEPT == 1

IPPROTO_IP == 0
IPPROTO_ICMP == 1
IPPROTO_TCP == 6
IPPROTO_UDP == 17

NAT_TYPE_NO == 0
NAT_TYPE_SRC == 1
NAT_TYPE_DEST == 2

CONN_MAX_SYM_NUM == 3
CONN_EXPIRES == 7
CONN_NAT_TIMES == 10
CONN_ROLL_INTERVAL == 5
MAX_LOG_LEN == 1000
HZ == 1

\* unsigned short: 16 bits; unsigned int: 32 bits
USHORT == 65536

\* ---------------------------------------------------------------- bounds --

\* at most this many rules in the filter chain
MaxRules == 2
\* at most this many rules in the filter chain when the chain is looked at alone
MaxChain == 3
\* at most this many nodes in the connection tree
MaxConns == 4
\* at most this many rules in the NAT chain
MaxNatRules == 1
\* at most this many entries in the log chain
MaxLog == 2
\* pushes offered to the log chain beyond MAX_LOG_LEN
MaxOver == 2
\* jiffies stop advancing here
MaxTime == 7
\* the last datagram and the last request arrive by this time
ArriveBy == 6
\* the clock of the sweep timer's run stops here
MaxClock == 82

\* ------------------------------------------------------------- utilities --

RECURSIVE BitAnd(_, _)
\* the C operator & on naturals
BitAnd(a, b) ==
    IF a = 0 \/ b = 0 THEN 0
    ELSE (a % 2) * (b % 2) + 2 * BitAnd(a \div 2, b \div 2)

\* (unsigned short)(x >> 16) and (unsigned short)(x & 0xFFFF) of a packed range
\* a 32-bit word is held as its two 16-bit halves <<high, low>>
RangeMin(x) == x[1]
RangeMax(x) == x[2]
\* (min << 16) | max
PackRange(min, max) == <<min % USHORT, max % USHORT>>
UIntLess(a, b) == a[1] < b[1] \/ (a[1] = b[1] /\ a[2] < b[2])

\* tools.c isIPMatch
isIPMatch(ipl, ipr, mask) == BitAnd(ipl, mask) = BitAnd(ipr, mask)

\* tools.c getPort: TCP and UDP carry ports, every other protocol reads as 0
getPort(pkt) ==
    IF pkt.protocol \in {IPPROTO_TCP, IPPROTO_UDP}
    THEN [sport |-> pkt.sport, dport |-> pkt.dport]
    ELSE [sport |-> 0, dport |-> 0]

\* ------------------------------------------------------------ rule chain --

\* part of matchOneRule: the address and port predicates of a rule
MatchAddrPort(rule, sip, dip, sport, dport) ==
    /\ isIPMatch(sip, rule.saddr, rule.smask)
    /\ isIPMatch(dip, rule.daddr, rule.dmask)
    /\ sport >= RangeMin(rule.sport) /\ sport <= RangeMax(rule.sport)
    /\ dport >= RangeMin(rule.dport) /\ dport <= RangeMax(rule.dport)

matchOneRule(rule, sip, dip, sport, dport, proto) ==
    /\ MatchAddrPort(rule, sip, dip, sport, dport)
    /\ (rule.protocol = IPPROTO_IP \/ rule.protocol = proto)

RECURSIVE matchFrom(_, _, _)
\* the loop of matchIPRules from list position i: the position of the first
\* rule that matches, 0 when the walk reaches the end of the chain
matchFrom(chain, i, pkt) ==
    IF i > Len(chain) THEN 0
    ELSE IF matchOneRule(chain[i], pkt.sip, pkt.dip,
                         getPort(pkt).sport, getPort(pkt).dport, pkt.protocol)
         THEN i
         ELSE matchFrom(chain, i + 1, pkt)

RECURSIVE matchLastFrom(_, _, _)
\* a walk that keeps going after a match: the position of the last rule that
\* matches
matchLastFrom(chain, i, pkt) ==
    IF i = 0 THEN 0
    ELSE IF matchOneRule(chain[i], pkt.sip, pkt.dip,
                         getPort(pkt).sport, getPort(pkt).dport, pkt.protocol)
         THEN i
         ELSE matchLastFrom(chain, i - 1, pkt)

matchIPRulesLast(chain, pkt) == matchLastFrom(chain, Len(chain), pkt)

matchIPRules(chain, pkt) == matchFrom(chain, 1, pkt)

RECURSIVE findName(_, _, _)
\* first position at or after i of a rule called name, 0 when there is none
findName(chain, i, name) ==
    IF i > Len(chain) THEN 0
    ELSE IF chain[i].name = name THEN i
    ELSE findName(chain, i + 1, name)

InsertAt(s, i, e) == SubSeq(s, 1, i) \o <<e>> \o SubSeq(s, i + 1, Len(s))
RemoveAt(s, i) == SubSeq(s, 1, i - 1) \o SubSeq(s, i + 1, Len(s))

\* ------------------------------------------------------- connection tree --

\* hasConn/addConn: key[0] = sip, key[1] = dip, key[2] = (sport << 16) | dport
ConnKey(sip, dip, sport, dport) == <<sip, dip, PackRange(sport, dport)>>

RECURSIVE connKeyCmpFrom(_, _, _)
connKeyCmpFrom(l, r, i) ==
    IF i > CONN_MAX_SYM_NUM THEN 0
    ELSE IF l[i] # r[i]
         THEN (IF (IF i < CONN_MAX_SYM_NUM THEN l[i] < r[i] ELSE UIntLess(l[i], r[i]))
               THEN -1 ELSE 1)
    ELSE connKeyCmpFrom(l, r, i + 1)

connKeyCmp(l, r) == connKeyCmpFrom(l, r, 1)

RECURSIVE descend(_, _, _, _)
\* the descent of searchNode and insertNode through the subtree that holds
\* positions lo..hi: [found |-> position of the node with this key or 0,
\*                    link |-> position a new node would be linked at]
descend(tree, key, lo, hi) ==
    IF lo > hi THEN [found |-> 0, link |-> lo]
    ELSE LET mid == (lo + hi) \div 2
             result == connKeyCmp(key, tree[mid].key)
         IN IF result < 0 THEN descend(tree, key, lo, mid - 1)
            ELSE IF result > 0 THEN descend(tree, key, mid + 1, hi)
            ELSE [found |-> mid, link |-> mid]

\* a lookup that finds no node
searchNodeNone(tree, key) == 0

searchNode(tree, key) == descend(tree, key, 1, Len(tree)).found

\* insertNode: [tree |-> the tree afterwards, node |-> position of the node
\* returned: the one already there with this key, or the new one]
insertNode(tree, data) ==
    LET d == descend(tree, data.key, 1, Len(tree))
    IN IF d.found # 0 THEN [tree |-> tree, node |-> d.found]
       ELSE [tree |-> InsertAt(tree, d.link - 1, data), node |-> d.link]

eraseNode(tree, node) == IF node # 0 THEN RemoveAt(tree, node) ELSE tree

timeFromNow(now, plus) == now + plus * HZ

\* a test that lets the entry live through the tick of its deadline
isTimeoutAfter(now, expires) == now > expires

isTimeout(now, expires) == now >= expires

addConnExpires(tree, node, now, plus) ==
    IF node = 0 THEN tree
    ELSE [tree EXCEPT ![node].expires = timeFromNow(now, plus)]

\* a lookup that takes a node whose deadline has passed for absent
hasConnLive(tree, now, sip, dip, sport, dport) ==
    LET node == searchNode(tree, ConnKey(sip, dip, sport, dport))
    IN IF node # 0 /\ ~isTimeout(now, tree[node].expires)
       THEN [tree |-> addConnExpires(tree, node, now, CONN_EXPIRES), node |-> node]
       ELSE [tree |-> tree, node |-> 0]

\* hasConn: [tree, node]; a hit refreshes the node's deadline
hasConn(tree, now, sip, dip, sport, dport) ==
    LET node == searchNode(tree, ConnKey(sip, dip, sport, dport))
    IN [tree |-> IF node # 0 THEN addConnExpires(tree, node, now, CONN_EXPIRES)
                 ELSE tree,
        node |-> node]

NoNAT == [saddr |-> 0, daddr |-> 0, sport |-> 0, dport |-> 0]

\* an insert that drops the log flag of the admitting rule
addConnNoLog(tree, now, sip, dip, sport, dport, proto, log) ==
    insertNode(tree, [key |-> ConnKey(sip, dip, sport, dport),
                      expires |-> timeFromNow(now, CONN_EXPIRES),
                      protocol |-> proto,
                      needLog |-> 0,
                      natType |-> NAT_TYPE_NO,
                      nat |-> NoNAT])

addConn(tree, now, sip, dip, sport, dport, proto, log) ==
    insertNode(tree, [key |-> ConnKey(sip, dip, sport, dport),
                      expires |-> timeFromNow(now, CONN_EXPIRES),
                      protocol |-> proto,
                      needLog |-> log,
                      natType |-> NAT_TYPE_NO,
                      nat |-> NoNAT])

setConnNAT(tree, node, record, natType) ==
    IF node = 0 THEN tree
    ELSE [tree EXCEPT ![node].natType = natType, ![node].nat = record]

\* a scan that looks at the nodes of the reverse direction
PortInUseDest(tree, daddr, port) ==
    \E i \in 1..Len(tree) :
        /\ tree[i].natType = NAT_TYPE_DEST
        /\ tree[i].nat.daddr = daddr
        /\ port = tree[i].nat.dport

\* whether some SNAT node already holds port of address daddr: the scan
\* inside getNewNATPort
PortInUse(tree, daddr, port) ==
    \E i \in 1..Len(tree) :
        /\ tree[i].natType = NAT_TYPE_SRC
        /\ tree[i].nat.daddr = daddr
        /\ port = tree[i].nat.dport

RECURSIVE allocLoop(_, _, _, _)
\* the for loop of getNewNATPort, entered at its condition with this value
\* of port; seen holds the values port had at earlier evaluations of the
\* condition.  The loop has no other state, so a value seen twice means the
\* loop never ends: returns = FALSE.
allocLoop(rule, tree, port, seen) ==
    IF port = rule.nowPort THEN [ret |-> 0, returns |-> TRUE]
    ELSE IF port \in seen THEN [ret |-> 0, returns |-> FALSE]
    ELSE LET p == IF port > rule.dport \/ port < rule.sport
                  THEN rule.sport ELSE port
         IN IF ~PortInUse(tree, rule.daddr, p)
            THEN [ret |-> p, returns |-> TRUE]
            ELSE allocLoop(rule, tree, (p + 1) % USHORT, seen \cup {port})

getNewNATPort(rule, tree) ==
    LET r == IF rule.nowPort > rule.dport \/ rule.nowPort < rule.sport
             THEN [rule EXCEPT !.nowPort = (rule.sport - 1) % USHORT]
             ELSE rule
    IN allocLoop(r, tree, (r.nowPort + 1) % USHORT, {})

RECURSIVE firstRelated(_, _, _)
\* the scan of eraseConnRelated: the first node, in key order, that the rule
\* matches; 0 when the scan reaches the end
firstRelated(tree, rule, i) ==
    IF i > Len(tree) THEN 0
    ELSE IF matchOneRule(rule, tree[i].key[1], tree[i].key[2],
                         RangeMin(tree[i].key[3]), RangeMax(tree[i].key[3]),
                         tree[i].protocol)
         THEN i
         ELSE firstRelated(tree, rule, i + 1)

RECURSIVE eraseLoop(_, _)
eraseLoop(tree, rule) ==
    LET needDel == firstRelated(tree, rule, 1)
    IN IF needDel = 0 THEN tree
       ELSE eraseLoop(eraseNode(tree, needDel), rule)

\* an eraser that keeps the rule's own protocol
eraseConnRelatedProto(tree, rule) == eraseLoop(tree, rule)

eraseConnRelated(tree, rule) ==
    eraseLoop(tree, [rule EXCEPT !.protocol = IPPROTO_IP])

RECURSIVE firstTimeout(_, _, _)
firstTimeout(tree, now, i) ==
    IF i > Len(tree) THEN 0
    ELSE IF isTimeout(now, tree[i].expires) THEN i
    ELSE firstTimeout(tree, now, i + 1)

\* a sweep that stops after the first node it erased
rollConnOnce(tree, now) ==
    LET needDel == firstTimeout(tree, now, 1)
    IN IF needDel = 0 THEN tree ELSE eraseNode(tree, needDel)

RECURSIVE rollConn(_, _)
rollConn(tree, now) ==
    LET needDel == firstTimeout(tree, now, 1)
    IN IF needDel = 0 THEN tree
       ELSE rollConn(eraseNode(tree, needDel), now)

\* ------------------------------------------------------------- NAT chain --

RECURSIVE matchNATFrom(_, _, _, _)
matchNATFrom(chain, i, sip, dip) ==
    IF i > Len(chain) THEN 0
    ELSE IF BitAnd(sip, chain[i].smask) = chain[i].saddr THEN i
    ELSE matchNATFrom(chain, i + 1, sip, dip)

matchNATRule(chain, sip, dip) == matchNATFrom(chain, 1, sip, dip)

genNATRecord(preIP, afterIP, prePort, afterPort) ==
    [saddr |-> preIP, daddr |-> afterIP, sport |-> prePort, dport |-> afterPort]

addNATRuleToChain(chain, rule) == Append(chain, rule)

\* the ordinal counts from 0; [chain, count]
delNATRuleFromChain(chain, num) ==
    IF num >= 0 /\ num < Len(chain)
    THEN [chain |-> RemoveAt(chain, num + 1), count |-> 1]
    ELSE [chain |-> chain, count |-> 0]

\* ------------------------------------------------------------- log chain --

\* a trim that unlinks at the tail
RECURSIVE rollLogTail(_, _)
rollLogTail(chain, num) ==
    IF num > MAX_LOG_LEN
    THEN IF chain = <<>> THEN [chain |-> chain, num |-> 0]
         ELSE rollLogTail(SubSeq(chain, 1, Len(chain) - 1), num - 1)
    ELSE [chain |-> chain, num |-> num]

RECURSIVE rollLog(_, _)
\* the loop of rollLog on the chain (oldest entry first) and the counter
\* logNum: [chain, num]
rollLog(chain, num) ==
    IF num > MAX_LOG_LEN
    THEN IF chain = <<>> THEN [chain |-> chain, num |-> 0]
         ELSE IF Tail(chain) = <<>> THEN rollLog(<<>>, 0)
         ELSE rollLog(Tail(chain), num - 1)
    ELSE [chain |-> chain, num |-> num]

\* addLog up to its write_unlock: the entry is linked at the tail and counted
addLogLink(chain, num, log) ==
    IF chain = <<>> THEN [chain |-> <<log>>, num |-> 1]
    ELSE [chain |-> Append(chain, log), num |-> num + 1]

\* addLog: [chain, num]
addLog(chain, num, log) ==
    LET linked == addLogLink(chain, num, log)
    IN IF chain # <<>> /\ linked.num > MAX_LOG_LEN
       THEN rollLog(linked.chain, linked.num)
       ELSE linked

\* the entry addLogBySKB fills in; the payload length is not modelled:
\* datagrams carry no payload here
LogOfSKB(now, action, pkt) ==
    [tm |-> now, saddr |-> pkt.sip, daddr |-> pkt.dip,
     sport |-> getPort(pkt).sport, dport |-> getPort(pkt).dport,
     protocol |-> pkt.protocol, action |-> action]

addLogBySKB(chain, num, now, action, pkt) ==
    addLog(chain, num, LogOfSKB(now, action, pkt))

\* -------------------------------------------------- filter chain updates --

\* addIPRuleToChain: [chain, tree, ok]
addIPRuleToChain(chain, tree, after, rule) ==
    LET tree1 == IF rule.action # NF_ACCEPT
                 THEN eraseConnRelated(tree, rule) ELSE tree
        at == findName(chain, 1, after)
    IN IF chain = <<>> THEN [chain |-> <<rule>>, tree |-> tree1, ok |-> TRUE]
       ELSE IF after = ""
            THEN [chain |-> <<rule>> \o chain, tree |-> tree1, ok |-> TRUE]
       ELSE IF at # 0
            THEN [chain |-> InsertAt(chain, at, rule), tree |-> tree1, ok |-> TRUE]
       ELSE [chain |-> chain, tree |-> tree1, ok |-> FALSE]

RECURSIVE delRest(_, _, _, _, _)
\* the second loop of delIPRuleFromChain; now is the position of the node
\* the loop stands on
delRest(chain, tree, name, now, count) ==
    IF now > Len(chain) \/ now + 1 > Len(chain)
    THEN [chain |-> chain, tree |-> tree, count |-> count]
    ELSE IF chain[now + 1].name = name
         THEN delRest(RemoveAt(chain, now + 1),
                      eraseConnRelated(tree, chain[now + 1]), name, now, count + 1)
         ELSE delRest(chain, tree, name, now + 1, count)

RECURSIVE delHeadKeepConns(_, _, _, _)
\* a first loop that unlinks the head rules and leaves their flows
delHeadKeepConns(chain, tree, name, count) ==
    IF chain # <<>> /\ Head(chain).name = name
    THEN delHeadKeepConns(Tail(chain), tree, name, count + 1)
    ELSE delRest(chain, tree, name, 1, count)

RECURSIVE delHead(_, _, _, _)
\* the first loop of delIPRuleFromChain, then the second
delHead(chain, tree, name, count) ==
    IF chain # <<>> /\ Head(chain).name = name
    THEN delHead(Tail(chain), eraseConnRelated(tree, Head(chain)), name, count + 1)
    ELSE delRest(chain, tree, name, 1, count)

\* a delete that leaves the connection table alone
delIPRuleKeepConns(chain, tree, name) ==
    [chain |-> SelectSeq(chain, LAMBDA rule : rule.name # name),
     tree |-> tree,
     count |-> Len(chain) - Len(SelectSeq(chain, LAMBDA rule : rule.name # name))]

\* a delete that stops at the first rule of the name
delIPRuleFirst(chain, tree, name) ==
    LET at == findName(chain, 1, name)
    IN IF at = 0 THEN [chain |-> chain, tree |-> tree, count |-> 0]
       ELSE [chain |-> RemoveAt(chain, at),
             tree |-> eraseConnRelated(tree, chain[at]), count |-> 1]

\* delIPRuleFromChain: [chain, tree, count]
delIPRuleFromChain(chain, tree, name) == delHead(chain, tree, name, 0)

\* the rule dealWithSetAction builds: masks 0, both port ranges (unsigned)-1
SetActionRule ==
    [name |-> "", saddr |-> 0, smask |-> 0, daddr |-> 0, dmask |-> 0,
     sport |-> PackRange(USHORT - 1, USHORT - 1),
     dport |-> PackRange(USHORT - 1, USHORT - 1),
     protocol |-> 0, action |-> 0, log |-> 0]

dealWithSetAction(tree, action) ==
    IF action # NF_ACCEPT THEN eraseConnRelated(tree, SetActionRule) ELSE tree

\* ------------------------------------------------------------------ hooks --

\* a filter that admits whatever no rule matches
filterActionAdmit(chain, isMatch, action0) ==
    IF isMatch # 0
    THEN (IF chain[isMatch].action = NF_ACCEPT THEN NF_ACCEPT ELSE NF_DROP)
    ELSE NF_ACCEPT

\* hook_main, the verdict on a miss: action0 is DEFAULT_ACTION as read at entry
filterAction(chain, isMatch, action0) ==
    IF isMatch # 0
    THEN (IF chain[isMatch].action = NF_ACCEPT THEN NF_ACCEPT ELSE NF_DROP)
    ELSE action0

\* hook_main: [tree, logs, logNum, verdict, hit]
hook_main(chain, default, tree, logchain, num, now, pkt) ==
    LET port == getPort(pkt)
        action0 == default
        h == hasConn(tree, now, pkt.sip, pkt.dip, port.sport, port.dport)
        isMatch == matchIPRules(chain, pkt)
        action == filterAction(chain, isMatch, action0)
        isLog == IF isMatch # 0 /\ chain[isMatch].log # 0 THEN 1 ELSE 0
        kept == [chain |-> logchain, num |-> num]
        hitLog == IF h.tree[h.node].needLog # 0
                  THEN addLogBySKB(logchain, num, now, NF_ACCEPT, pkt) ELSE kept
        missLog == IF isLog = 1
                   THEN addLogBySKB(logchain, num, now, action, pkt) ELSE kept
    IN IF h.node # 0
       THEN [tree |-> h.tree, logs |-> hitLog.chain, logNum |-> hitLog.num,
             verdict |-> NF_ACCEPT, hit |-> TRUE]
       ELSE [tree |-> IF action = NF_ACCEPT
                      THEN addConn(h.tree, now, pkt.sip, pkt.dip, port.sport, port.dport,
                                   pkt.protocol, isLog).tree
                      ELSE h.tree,
             logs |-> missLog.chain, logNum |-> missLog.num,
             verdict |-> action, hit |-> FALSE]

HasPorts(pkt) == pkt.protocol \in {IPPROTO_TCP, IPPROTO_UDP}

\* hook_nat_in: [tree, out]
hook_nat_in(tree, now, pkt) ==
    LET port == getPort(pkt)
        h == hasConn(tree, now, pkt.sip, pkt.dip, port.sport, port.dport)
        record == h.tree[h.node].nat
    IN IF h.node = 0 THEN [tree |-> h.tree, out |-> pkt]
       ELSE IF h.tree[h.node].natType # NAT_TYPE_DEST THEN [tree |-> h.tree, out |-> pkt]
       ELSE [tree |-> h.tree,
             out |-> IF HasPorts(pkt)
                     THEN [pkt EXCEPT !.dip = record.daddr, !.dport = record.dport]
                     ELSE [pkt EXCEPT !.dip = record.daddr]]

\* hook_nat_out once the SNAT record of the flow is known: the reverse node,
\* the two refreshes and the rewrite
natOutRewrite(tree, now, pkt, record, newPort) ==
    LET port == getPort(pkt)
        fkey == ConnKey(pkt.sip, pkt.dip, port.sport, port.dport)
        rkey == ConnKey(pkt.dip, record.daddr, port.dport, record.dport)
        rh == hasConn(tree, now, pkt.dip, record.daddr, port.dport, record.dport)
        ra == addConn(rh.tree, now, pkt.dip, record.daddr, port.dport, record.dport,
                      pkt.protocol, 0)
        t1 == IF rh.node # 0 THEN rh.tree
              ELSE setConnNAT(ra.tree, ra.node,
                              genNATRecord(record.daddr, pkt.sip, record.dport, port.sport),
                              NAT_TYPE_DEST)
        t2 == addConnExpires(t1, searchNode(t1, rkey), now, CONN_EXPIRES * CONN_NAT_TIMES)
        t3 == addConnExpires(t2, searchNode(t2, fkey), now, CONN_EXPIRES * CONN_NAT_TIMES)
    IN [tree |-> t3,
        out |-> IF HasPorts(pkt)
                THEN [pkt EXCEPT !.sip = record.daddr, !.sport = record.dport]
                ELSE [pkt EXCEPT !.sip = record.daddr],
        returns |-> TRUE, called |-> newPort.called, rule |-> newPort.rule,
        newPort |-> newPort.ret, rewritten |-> TRUE]

\* a NAT-out that takes the record of the flow only from a dnat node, and so
\* asks the allocator again for a flow that is snat already
hook_nat_out_fresh(tree, chain, now, pkt) ==
    LET port == getPort(pkt)
        h == hasConn(tree, now, pkt.sip, pkt.dip, port.sport, port.dport)
        rule == matchNATRule(chain, pkt.sip, pkt.dip)
        alloc == getNewNATPort(chain[rule], h.tree)
        record == genNATRecord(pkt.sip, chain[rule].daddr, port.sport,
                               IF port.sport # 0 THEN alloc.ret ELSE 0)
        pass == [tree |-> h.tree, out |-> pkt, returns |-> TRUE, called |-> FALSE,
                 rule |-> 0, newPort |-> 0, rewritten |-> FALSE]
    IN IF h.node = 0 THEN pass
       ELSE IF h.tree[h.node].natType = NAT_TYPE_DEST
            THEN natOutRewrite(h.tree, now, pkt, h.tree[h.node].nat,
                               [called |-> FALSE, rule |-> 0, ret |-> 0])
       ELSE IF rule = 0 THEN pass
       ELSE IF port.sport # 0 /\ ~alloc.returns
            THEN [pass EXCEPT !.returns = FALSE, !.called = TRUE, !.rule = rule]
       ELSE IF port.sport # 0 /\ alloc.ret = 0
            THEN [pass EXCEPT !.called = TRUE, !.rule = rule]
       ELSE natOutRewrite(setConnNAT(h.tree, h.node, record, NAT_TYPE_SRC), now, pkt,
                          record,
                          [called |-> port.sport # 0, rule |-> rule,
                           ret |-> IF port.sport # 0 THEN alloc.ret ELSE 0])

\* hook_nat_out: [tree, out, returns, called, rule, newPort, rewritten];
\* called: getNewNATPort was called, for NAT rule number rule; returns: the
\* hook came back (getNewNATPort did not loop for ever)
hook_nat_out(tree, chain, now, pkt) ==
    LET port == getPort(pkt)
        h == hasConn(tree, now, pkt.sip, pkt.dip, port.sport, port.dport)
        rule == matchNATRule(chain, pkt.sip, pkt.dip)
        alloc == getNewNATPort(chain[rule], h.tree)
        record == genNATRecord(pkt.sip, chain[rule].daddr, port.sport,
                               IF port.sport # 0 THEN alloc.ret ELSE 0)
        pass == [tree |-> h.tree, out |-> pkt, returns |-> TRUE, called |-> FALSE,
                 rule |-> 0, newPort |-> 0, rewritten |-> FALSE]
    IN IF h.node = 0 THEN pass
       ELSE IF h.tree[h.node].natType = NAT_TYPE_SRC
            THEN natOutRewrite(h.tree, now, pkt, h.tree[h.node].nat,
                               [called |-> FALSE, rule |-> 0, ret |-> 0])
       ELSE IF rule = 0 THEN pass
       ELSE IF port.sport # 0 /\ ~alloc.returns
            THEN [pass EXCEPT !.returns = FALSE, !.called = TRUE, !.rule = rule]
       ELSE IF port.sport # 0 /\ alloc.ret = 0
            THEN [pass EXCEPT !.called = TRUE, !.rule = rule]
       ELSE natOutRewrite(setConnNAT(h.tree, h.node, record, NAT_TYPE_SRC), now, pkt,
                          record,
                          [called |-> port.sport # 0, rule |-> rule,
                           ret |-> IF port.sport # 0 THEN alloc.ret ELSE 0])

\* ----------------------------------------------------------------- inputs --

Addr(net, host) == net * 16 + host
MaskNet == 16 * 15
MaskHost == 16 * 16 - 1
AnyPort == PackRange(0, USHORT - 1)

HostA1 == Addr(1, 1)
HostA2 == Addr(1, 2)
PeerD == Addr(2, 1)
NatT == Addr(3, 1)
SrcPort == 10 * 100
PeerPort == 50 + 3
NatLo == 4 * 10000
NatHi == NatLo + 1

Pkt(sip, dip, sport, dport, proto) ==
    [sip |-> sip, dip |-> dip, sport |-> sport, dport |-> dport, protocol |-> proto]

\* datagrams of the inside hosts towards the peer
TcpA1 == Pkt(HostA1, PeerD, SrcPort, PeerPort, IPPROTO_TCP)
TcpA2 == Pkt(HostA2, PeerD, SrcPort, PeerPort, IPPROTO_TCP)
IcmpA1 == Pkt(HostA1, PeerD, 0, 0, IPPROTO_ICMP)
IcmpA2 == Pkt(HostA2, PeerD, 0, 0, IPPROTO_ICMP)
\* a UDP datagram with the addresses and ports of TcpA1
UdpA1 == Pkt(HostA1, PeerD, SrcPort, PeerPort, IPPROTO_UDP)
\* the peer's replies towards the translated address
ReplyLo == Pkt(PeerD, NatT, PeerPort, NatLo, IPPROTO_TCP)

IPRule(name, saddr, smask, daddr, dmask, sport, dport, proto, action, log) ==
    [name |-> name, saddr |-> saddr, smask |-> smask, daddr |-> daddr, dmask |-> dmask,
     sport |-> sport, dport |-> dport, protocol |-> proto, action |-> action, log |-> log]

\* "a" admits TCP of the inside network, "b" drops everything of host A1
RuleA == IPRule("a", Addr(1, 0), MaskNet, 0, 0, AnyPort, AnyPort, IPPROTO_TCP, NF_ACCEPT, 0)
RuleB == IPRule("b", HostA1, MaskHost, 0, 0, AnyPort, AnyPort, IPPROTO_IP, NF_DROP, 0)

\* "z" drops every datagram and has both packed port ranges 0
RuleZ == IPRule("z", 0, 0, 0, 0, PackRange(0, 0), PackRange(0, 0), IPPROTO_IP, NF_DROP, 0)

RuleNames == {"a", "b"}

NATRule(saddr, smask, daddr, lo, hi, nowPort) ==
    [saddr |-> saddr, smask |-> smask, daddr |-> daddr, sport |-> lo, dport |-> hi,
     nowPort |-> nowPort]

\* cmdAddNATRule leaves nowPort unset: any value may arrive
NATRuleInputs ==
    { NATRule(Addr(1, 0), MaskNet, NatT, NatLo, NatLo, 0),
      NATRule(Addr(1, 0), MaskNet, NatT, NatLo, NatLo, NatLo),
      NATRule(Addr(1, 0), MaskNet, NatT, NatLo, NatHi, NatLo),
      NATRule(Addr(1, 0), MaskNet, NatT, NatLo, NatHi, NatHi) }

Actions == {NF_DROP, NF_ACCEPT}
TickSteps == {CONN_EXPIRES}

\* ---------------------------------------------------------- state machine --

\* pend: the node each eraser picked under the read lock and has not erased
\* yet; lost: nodes that were never freed and are no longer linked in the tree
VARIABLES rules, DEFAULT_ACTION, connRoot, natRules, logs, logNum, jiffies, last, pend,
          lost, logger, cpu, conn_timer, loaded

vars == <<rules, DEFAULT_ACTION, connRoot, natRules, logs, logNum, jiffies, last, pend,
          lost, logger, cpu, conn_timer, loaded>>

\* what the handlers taken as one step leave alone: the position of each CPU
\* inside a handler, the state of the sweep timer, the module being loaded
rest == <<cpu, conn_timer, loaded>>

Erasers == {"rollConn", "eraseConnRelated"}
Idle == [state |-> "idle"]
\* the contexts (CPUs) that push log entries
Loggers == {1, 2}

Init ==
    /\ rules = <<>>
    /\ DEFAULT_ACTION = NF_ACCEPT
    /\ connRoot = <<>>
    /\ natRules = <<>>
    /\ logs = <<>>
    /\ logNum = 0
    /\ jiffies = 0
    /\ last = [op |-> "mod_init"]
    /\ pend = [t \in Erasers |-> Idle]
    /\ lost = {}
    /\ logger = [c \in Loggers |-> "idle"]
    /\ cpu = [c \in Loggers |-> Idle]
    /\ conn_timer = "pending"
    /\ loaded = TRUE

\* the machine is halted once a hook did not come back
Running == last.op = "hook_nat_out" => last.returns

\* hook_main from the lookup on, with action0 the default read at entry
HookMainRead(P, action0) ==
    \E pkt \in P :
        \E r \in {hook_main(rules, action0, connRoot, logs, logNum, jiffies, pkt)} :
           /\ Running
           /\ Len(r.tree) <= MaxConns
           /\ Len(r.logs) <= MaxLog
           /\ connRoot' = r.tree
           /\ logs' = r.logs
           /\ logNum' = r.logNum
           /\ last' = [op |-> "hook_main", pkt |-> pkt, verdict |-> r.verdict,
                       hit |-> r.hit,
                       stale |-> \E i \in 1 .. Len(connRoot) :
                                    /\ connRoot[i].key = ConnKey(pkt.sip, pkt.dip,
                                                                 getPort(pkt).sport,
                                                                 getPort(pkt).dport)
                                    /\ isTimeout(jiffies, connRoot[i].expires)]
           /\ UNCHANGED <<rules, DEFAULT_ACTION, natRules, jiffies, lost, logger>>

HookMainOn(P) == HookMainRead(P, DEFAULT_ACTION)

HookNatInOn(P) ==
    \E pkt \in P :
        \E r \in {hook_nat_in(connRoot, jiffies, pkt)} :
           /\ Running
           /\ connRoot' = r.tree
           /\ last' = [op |-> "hook_nat_in", pkt |-> pkt, out |-> r.out]
           /\ UNCHANGED <<rules, DEFAULT_ACTION, natRules, logs, logNum, jiffies, lost, logger>>

HookNatOutOn(P) ==
    \E pkt \in P :
        \E r \in {hook_nat_out(connRoot, natRules, jiffies, pkt)} :
           /\ Running
           /\ Len(r.tree) <= MaxConns
           /\ connRoot' = r.tree
           /\ last' = [op |-> "hook_nat_out", pkt |-> pkt, out |-> r.out,
                       returns |-> r.returns, called |-> r.called, rule |-> r.rule,
                       newPort |-> r.newPort, rewritten |-> r.rewritten]
           /\ UNCHANGED <<rules, DEFAULT_ACTION, natRules, logs, logNum, jiffies, lost, logger>>

\* REQ_ADDIPRule of a rule of R behind a name of A, on a chain kept to max rules
AddIPRuleUpTo(R, A, max) ==
    \E rule \in R, after \in A :
        \E r \in {addIPRuleToChain(rules, connRoot, after, rule)} :
           /\ Running
           /\ Len(r.chain) <= max
           /\ rules' = r.chain
           /\ connRoot' = r.tree
           /\ last' = [op |-> "REQ_ADDIPRule", rule |-> rule, after |-> after,
                       ok |-> r.ok, erased |-> Len(connRoot) - Len(r.tree)]
           /\ UNCHANGED <<DEFAULT_ACTION, natRules, logs, logNum, jiffies, lost, logger>>

AddIPRuleOn(R) == AddIPRuleUpTo(R, {"", "a", "x"}, MaxRules)

DelIPRuleOn(N) ==
    \E name \in N :
        \E r \in {delIPRuleFromChain(rules, connRoot, name)} :
           /\ Running
           /\ rules' = r.chain
           /\ connRoot' = r.tree
           /\ last' = [op |-> "REQ_DELIPRule", name |-> name, count |-> r.count,
                       erased |-> Len(connRoot) - Len(r.tree),
                       gone |-> {connRoot[i].key : i \in 1 .. Len(connRoot)}
                                  \ {r.tree[i].key : i \in 1 .. Len(r.tree)}]
           /\ UNCHANGED <<DEFAULT_ACTION, natRules, logs, logNum, jiffies, lost, logger>>

SetActionOn(A) ==
    \E v \in A :
        LET action == IF v = NF_ACCEPT THEN NF_ACCEPT ELSE NF_DROP
            tree == dealWithSetAction(connRoot, action)
        IN /\ Running
           /\ DEFAULT_ACTION' = action
           /\ connRoot' = tree
           /\ last' = [op |-> "REQ_SETAction", v |-> v,
                       erased |-> Len(connRoot) - Len(tree)]
           /\ UNCHANGED <<rules, natRules, logs, logNum, jiffies, lost, logger>>

AddNATRuleOn(R) ==
    \E rule \in R :
        /\ Running
        /\ Len(natRules) < MaxNatRules
        /\ natRules' = addNATRuleToChain(natRules, rule)
        /\ last' = [op |-> "REQ_ADDNATRule", rule |-> rule]
        /\ UNCHANGED <<rules, DEFAULT_ACTION, connRoot, logs, logNum, jiffies, lost, logger>>

DelNATRuleOn(N) ==
    \E num \in N :
        \E r \in {delNATRuleFromChain(natRules, num)} :
           /\ Running
           /\ natRules' = r.chain
           /\ last' = [op |-> "REQ_DELNATRule", num |-> num, count |-> r.count]
           /\ UNCHANGED <<rules, DEFAULT_ACTION, connRoot, logs, logNum, jiffies, lost, logger>>

conn_timer_callback ==
    /\ Running
    /\ connRoot' = rollConn(connRoot, jiffies)
    /\ last' = [op |-> "conn_timer_callback",
                erased |-> Len(connRoot) - Len(rollConn(connRoot, jiffies))]
    /\ UNCHANGED <<rules, DEFAULT_ACTION, natRules, logs, logNum, jiffies, lost, logger>>

TickOn(S) ==
    \E d \in S :
        /\ Running
        /\ jiffies + d <= MaxTime
        /\ jiffies' = jiffies + d
        /\ last' = [op |-> "tick"]
        /\ UNCHANGED <<rules, DEFAULT_ACTION, connRoot, natRules, logs, logNum, lost, logger>>

\* ------------------------------------------------- the filter, one CPU --

RuleInputs == {RuleA, RuleB}

Next ==
    \/ HookMainOn({TcpA1, TcpA2, IcmpA1, IcmpA2,
                   Pkt(HostA2, PeerD, USHORT - 1, USHORT - 1, IPPROTO_TCP)})
           /\ UNCHANGED <<pend, rest>>
    \/ AddIPRuleOn(RuleInputs) /\ UNCHANGED <<pend, rest>>
    \/ DelIPRuleOn(RuleNames) /\ UNCHANGED <<pend, rest>>
    \/ SetActionOn(Actions) /\ UNCHANGED <<pend, rest>>
    \/ conn_timer_callback /\ UNCHANGED <<pend, rest>>
    \/ TickOn(TickSteps) /\ UNCHANGED <<pend, rest>>

Spec == Init /\ [][Next]_vars

\* ------------------------------------------ source NAT, one CPU --

NatPackets == {TcpA1, TcpA2, IcmpA1, IcmpA2, ReplyLo}

NextNAT ==
    \/ HookMainOn(NatPackets) /\ UNCHANGED <<pend, rest>>
    \/ HookNatInOn(NatPackets) /\ UNCHANGED <<pend, rest>>
    \/ HookNatOutOn(NatPackets) /\ UNCHANGED <<pend, rest>>
    \/ AddNATRuleOn(NATRuleInputs) /\ UNCHANGED <<pend, rest>>
    \/ DelNATRuleOn(0 .. MaxNatRules) /\ UNCHANGED <<pend, rest>>

SpecNAT == Init /\ [][NextNAT]_vars

\* ------------------- the table's erasers side by side, two CPUs --
\* rollConn (timer softirq) and eraseConnRelated (netlink, process context)
\* each pick needDel under the read lock, drop the lock, and call eraseNode.
\* A node erased and freed by one of them while the other still holds it is a
\* dangling pointer there: rb_erase and kfree of it are undefined.  Three
\* outcomes are kept: the stale links touch nothing that is live; the stale
\* parent link is rewritten and a live node falls off the tree without being
\* freed; the memory was handed out again by kzalloc and the node now living
\* there is erased.

\* req: what the eraser runs for, the timer or a request of the control plane
Scan(req) == [state |-> "scan", req |-> req]
Found(key, req) ==
    [state |-> "found", key |-> key, freed |-> FALSE, since |-> {}, req |-> req]

Keys(tree) == {tree[i].key : i \in 1 .. Len(tree)}

\* the other holders of the node of key k now hold a dangling pointer
Dangle(p, t, k) ==
    [u \in Erasers |->
        IF u # t /\ p[u].state = "found" /\ p[u].key = k
        THEN [p[u] EXCEPT !.freed = TRUE] ELSE p[u]]

\* the nodes kzalloc handed out since a holder's node was freed
Since(p, new) ==
    [u \in Erasers |->
        IF p[u].state = "found" /\ p[u].freed
        THEN [p[u] EXCEPT !.since = @ \cup new] ELSE p[u]]

\* eraseNode(needDel) of eraser t; next is its state once the call is over
eraseNodeRace(t, next) ==
    /\ pend[t].state = "found"
    /\ \/ /\ ~pend[t].freed
          /\ connRoot' = eraseNode(connRoot, searchNode(connRoot, pend[t].key))
          /\ lost' = lost
          /\ pend' = [Dangle(pend, t, pend[t].key) EXCEPT ![t] = next]
       \/ /\ pend[t].freed
          /\ connRoot' = connRoot
          /\ lost' = lost
          /\ pend' = [pend EXCEPT ![t] = next]
       \/ /\ pend[t].freed
          /\ \E i \in 1 .. Len(connRoot) :
                /\ connRoot' = RemoveAt(connRoot, i)
                /\ lost' = lost \cup {connRoot[i]}
                /\ pend' = [Dangle(pend, t, connRoot[i].key) EXCEPT ![t] = next]
       \/ /\ pend[t].freed
          /\ \E i \in 1 .. Len(connRoot) :
                /\ connRoot[i].key \in pend[t].since
                /\ connRoot' = RemoveAt(connRoot, i)
                /\ lost' = lost
                /\ pend' = [Dangle(pend, t, connRoot[i].key) EXCEPT ![t] = next]

\* rollConn, the walk under the read lock
SweepScan ==
    /\ pend["rollConn"].state \in {"idle", "scan"}
    /\ \E needDel \in {firstTimeout(connRoot, jiffies, 1)} :
          /\ pend["rollConn"].state = "idle" => needDel # 0
          /\ pend' = [pend EXCEPT !["rollConn"] =
                        IF needDel = 0 THEN Idle
                        ELSE Found(connRoot[needDel].key, "timer")]
    /\ last' = [op |-> "rollConn"]
    /\ UNCHANGED <<rules, DEFAULT_ACTION, connRoot, natRules, logs, logNum, jiffies, lost, logger, rest>>

SweepErase ==
    /\ eraseNodeRace("rollConn", Scan("timer"))
    /\ last' = [op |-> "rollConn"]
    /\ UNCHANGED <<rules, DEFAULT_ACTION, natRules, logs, logNum, jiffies, logger, rest>>

\* REQ_ADDIPRule of a rule that does not admit: addIPRuleToChain enters
\* eraseConnRelated
RaceAddBegin ==
    \E rule \in {RuleB}, after \in {""} :
        /\ pend["eraseConnRelated"].state = "idle"
        /\ Len(rules) < MaxRules
        /\ pend' = [pend EXCEPT !["eraseConnRelated"] =
                      Scan([rule |-> rule, after |-> after])]
        /\ last' = [op |-> "REQ_ADDIPRule"]
        /\ UNCHANGED <<rules, DEFAULT_ACTION, connRoot, natRules, logs, logNum, jiffies, lost, logger, rest>>

\* eraseConnRelated, the walk under the read lock; with nothing left to erase
\* addIPRuleToChain goes on and links the rule
EraseScan ==
    /\ pend["eraseConnRelated"].state = "scan"
    /\ \E req \in {pend["eraseConnRelated"].req} :
       \E needDel \in {firstRelated(connRoot, [req.rule EXCEPT !.protocol = IPPROTO_IP], 1)} :
          IF needDel = 0
          THEN /\ rules' = addIPRuleToChain(rules, <<>>, req.after, req.rule).chain
               /\ pend' = [pend EXCEPT !["eraseConnRelated"] = Idle]
          ELSE /\ rules' = rules
               /\ pend' = [pend EXCEPT !["eraseConnRelated"] =
                             Found(connRoot[needDel].key, req)]
    /\ last' = [op |-> "eraseConnRelated"]
    /\ UNCHANGED <<DEFAULT_ACTION, connRoot, natRules, logs, logNum, jiffies, lost, logger, rest>>

EraseErase ==
    /\ pend["eraseConnRelated"].state = "found"
    /\ eraseNodeRace("eraseConnRelated", Scan(pend["eraseConnRelated"].req))
    /\ last' = [op |-> "eraseConnRelated"]
    /\ UNCHANGED <<rules, DEFAULT_ACTION, natRules, logs, logNum, jiffies, logger, rest>>

RaceHookMain ==
    /\ HookMainOn({TcpA1, IcmpA1, TcpA2})
    /\ pend' = Since(pend, Keys(connRoot') \ Keys(connRoot))
    /\ UNCHANGED rest

NextRace ==
    \/ RaceHookMain
    \/ RaceAddBegin
    \/ EraseScan
    \/ EraseErase
    \/ SweepScan
    \/ SweepErase
    \/ TickOn(TickSteps) /\ UNCHANGED <<pend, rest>>

SpecRace == Init /\ [][NextRace]_vars

\* --------------------------- source NAT and the ageing of flows, one CPU --

AgePackets == {TcpA1, TcpA2, ReplyLo}

NextAge ==
    \/ HookMainOn(AgePackets) /\ UNCHANGED <<pend, rest>>
    \/ HookNatInOn(AgePackets) /\ UNCHANGED <<pend, rest>>
    \/ HookNatOutOn(AgePackets) /\ UNCHANGED <<pend, rest>>
    \/ /\ AddNATRuleOn({NATRule(Addr(1, 0), MaskNet, NatT, NatLo, NatHi, NatLo),
                        NATRule(Addr(1, 0), MaskNet, NatT, NatLo, NatHi, NatHi)})
       /\ UNCHANGED <<pend, rest>>
    \/ DelNATRuleOn(0 .. MaxNatRules) /\ UNCHANGED <<pend, rest>>
    \/ conn_timer_callback /\ UNCHANGED <<pend, rest>>
    \/ TickOn(TickSteps) /\ UNCHANGED <<pend, rest>>

SpecAge == Init /\ [][NextAge]_vars

\* ------------------------------------- the filter chain, one CPU --

ChainPackets == {TcpA1, TcpA2, IcmpA1}

NextChain ==
    \/ HookMainOn(ChainPackets) /\ UNCHANGED <<pend, rest>>
    \/ AddIPRuleUpTo({RuleA, RuleB, [RuleB EXCEPT !.name = "a", !.saddr = HostA2]},
                     {"", "a", "b", "x"}, MaxChain)
           /\ UNCHANGED <<pend, rest>>
    \/ DelIPRuleOn(RuleNames) /\ UNCHANGED <<pend, rest>>

SpecChain == Init /\ [][NextChain]_vars

\* ------------------------------- the filter with a logging rule, one CPU --

NextAudit ==
    \/ HookMainOn({TcpA1, TcpA2, IcmpA1}) /\ UNCHANGED <<pend, rest>>
    \/ AddIPRuleOn({[RuleA EXCEPT !.name = "l", !.log = 1], RuleB})
           /\ UNCHANGED <<pend, rest>>
    \/ DelIPRuleOn({"l", "b"}) /\ UNCHANGED <<pend, rest>>
    \/ SetActionOn(Actions) /\ UNCHANGED <<pend, rest>>
    \/ conn_timer_callback /\ UNCHANGED <<pend, rest>>
    \/ TickOn(TickSteps) /\ UNCHANGED <<pend, rest>>

SpecAudit == Init /\ [][NextAudit]_vars

\* ------------------------------------ the log chain, two hook contexts --

\* addLogBySKB calls made so far; the n-th entry carries n as its time stamp
Pushes == IF last.op \in {"addLog", "rollLog"} THEN last.n ELSE 0

\* addLog up to write_unlock(&logLock): the entry is linked at the tail
LogLink(c) ==
    /\ logger[c] = "idle"
    /\ Pushes < MAX_LOG_LEN + MaxOver
    /\ \E r \in {addLogLink(logs, logNum, LogOfSKB(Pushes + 1, NF_ACCEPT, TcpA1))} :
          /\ logs' = r.chain
          /\ logNum' = r.num
    /\ logger' = [logger EXCEPT ![c] = IF logs = <<>> THEN "idle" ELSE "linked"]
    /\ last' = [op |-> "addLog", ctx |-> c, n |-> Pushes + 1]
    /\ UNCHANGED <<rules, DEFAULT_ACTION, connRoot, natRules, jiffies, pend, lost, rest>>

\* the rest of addLog: if(logNum > MAX_LOG_LEN) rollLog()
LogRoll(c) ==
    /\ logger[c] = "linked"
    /\ \E r \in {IF logNum > MAX_LOG_LEN THEN rollLog(logs, logNum)
                  ELSE [chain |-> logs, num |-> logNum]} :
          /\ logs' = r.chain
          /\ logNum' = r.num
    /\ logger' = [logger EXCEPT ![c] = "idle"]
    /\ last' = [op |-> "rollLog", ctx |-> c, n |-> Pushes]
    /\ UNCHANGED <<rules, DEFAULT_ACTION, connRoot, natRules, jiffies, pend, lost, rest>>

NextLog ==
    \/ \E c \in Loggers : LogLink(c)
    \/ \E c \in Loggers : LogRoll(c)

SpecLog == Init /\ [][NextLog]_vars

\* ------------- the filter against requests that change rules and default --

\* the verdict hook_main gives a datagram without a flow under (chain, default)
Verdict(chain, default, pkt) == filterAction(chain, matchIPRules(chain, pkt), default)

\* every hook_main under way has now also run under (chain, default)
Witnessed(chain, default) ==
    [c \in Loggers |->
        IF cpu[c].state = "hook_main"
        THEN [cpu[c] EXCEPT !.seen = @ \cup {Verdict(chain, default, cpu[c].pkt)}]
        ELSE cpu[c]]

\* hook_main, its first statement: action = DEFAULT_ACTION, no lock held
ConfigHookEnter ==
    \E c \in Loggers, pkt \in {TcpA1, TcpA2} :
        /\ cpu[c].state = "idle"
        /\ cpu' = [cpu EXCEPT ![c] = [state |-> "hook_main", pkt |-> pkt,
                                      action |-> DEFAULT_ACTION,
                                      seen |-> {Verdict(rules, DEFAULT_ACTION, pkt)}]]
        /\ last' = [op |-> "hook_main entry", pkt |-> pkt]
        /\ UNCHANGED <<rules, DEFAULT_ACTION, connRoot, natRules, logs, logNum, jiffies,
                       pend, lost, logger, conn_timer, loaded>>

\* hook_main, the rest: lookup, matchIPRules under ipRuleLock, addConn
ConfigHookMain ==
    \E c \in Loggers :
        /\ cpu[c].state = "hook_main"
        /\ HookMainRead({cpu[c].pkt}, cpu[c].action)
        /\ cpu' = [cpu EXCEPT ![c] = Idle]
        /\ UNCHANGED <<pend, conn_timer, loaded>>

NextConfig ==
    \/ ConfigHookEnter
    \/ ConfigHookMain
    \/ /\ SetActionOn(Actions)
       /\ cpu' = Witnessed(rules', DEFAULT_ACTION')
       /\ UNCHANGED <<pend, conn_timer, loaded>>
    \/ /\ AddIPRuleOn({RuleA, RuleB})
       /\ cpu' = Witnessed(rules', DEFAULT_ACTION')
       /\ UNCHANGED <<pend, conn_timer, loaded>>
    \/ /\ DelIPRuleOn(RuleNames)
       /\ cpu' = Witnessed(rules', DEFAULT_ACTION')
       /\ UNCHANGED <<pend, conn_timer, loaded>>

SpecConfig == Init /\ [][NextConfig]_vars

\* -------------------------------------- the locks a handler goes through --

PktNode(tree, pkt) ==
    searchNode(tree, ConnKey(pkt.sip, pkt.dip, getPort(pkt).sport, getPort(pkt).dport))

\* one critical section: read_lock or write_lock of l, then the unlock
Section(f, l) == <<[f |-> f, l |-> l], [f |-> "unlock", l |-> l]>>

\* eraseConnRelated and rollConn with k nodes to erase: each round walks the
\* tree under the read lock and erases the node found under the write lock
\* (eraseNode); the last round finds none
RECURSIVE EraseLocks(_)
EraseLocks(k) ==
    IF k = 0 THEN Section("read_lock", "connLock")
    ELSE Section("read_lock", "connLock") \o Section("write_lock", "connLock")
            \o EraseLocks(k - 1)

\* addLog: the link, and the trim if logNum has passed MAX_LOG_LEN
LogLocks(chain, num) ==
    IF chain # <<>> /\ num + 1 > MAX_LOG_LEN
    THEN Section("write_lock", "logLock") \o Section("write_lock", "logLock")
    ELSE Section("write_lock", "logLock")

\* hook_main: searchNode; on a hit addConnExpires and the log, on a miss
\* matchIPRules, the log and addConn
HookMainLocks(pkt) ==
    LET node == PktNode(connRoot, pkt)
        isMatch == matchIPRules(rules, pkt)
    IN Section("read_lock", "connLock") \o
       (IF node # 0
        THEN Section("write_lock", "connLock") \o
             (IF connRoot[node].needLog # 0 THEN LogLocks(logs, logNum) ELSE <<>>)
        ELSE Section("read_lock", "ipRuleLock") \o
             (IF isMatch # 0 /\ rules[isMatch].log # 0
              THEN LogLocks(logs, logNum) ELSE <<>>) \o
             (IF filterAction(rules, isMatch, DEFAULT_ACTION) = NF_ACCEPT
              THEN Section("write_lock", "connLock") ELSE <<>>))

\* addIPRuleToChain: eraseConnRelated is called between write_lock and
\* write_unlock of ipRuleLock
AddIPRuleLocks(rule) ==
    <<[f |-> "write_lock", l |-> "ipRuleLock"]>> \o
    (IF rule.action # NF_ACCEPT
     THEN EraseLocks(Len(connRoot) - Len(eraseConnRelated(connRoot, rule)))
     ELSE <<>>) \o
    <<[f |-> "unlock", l |-> "ipRuleLock"]>>

\* delIPRuleFromChain: eraseConnRelated(*tmp) for every rule unlinked, inside
\* the section of ipRuleLock
RECURSIVE DelErases(_, _, _)
DelErases(chain, tree, name) ==
    IF chain = <<>> THEN <<>>
    ELSE IF Head(chain).name = name
         THEN EraseLocks(Len(tree) - Len(eraseConnRelated(tree, Head(chain)))) \o
              DelErases(Tail(chain), eraseConnRelated(tree, Head(chain)), name)
         ELSE DelErases(Tail(chain), tree, name)

DelIPRuleLocks(name) ==
    <<[f |-> "write_lock", l |-> "ipRuleLock"]>> \o
    DelErases(rules, connRoot, name) \o
    <<[f |-> "unlock", l |-> "ipRuleLock"]>>

\* dealWithSetAction: eraseConnRelated of the rule that matches every flow
SetActionLocks(action) ==
    IF action # NF_ACCEPT
    THEN EraseLocks(Len(connRoot) - Len(dealWithSetAction(connRoot, action)))
    ELSE <<>>


\* a handler is entered on CPU c: req names it and its input, todo is what
\* it will do to the locks
Enter(c, req, todo) ==
    /\ \A d \in Loggers : cpu[d].state = "idle"
    /\ cpu' = [cpu EXCEPT ![c] = [state |-> "run", req |-> req, todo |-> todo,
                                  held |-> {}]]
    /\ last' = [op |-> "enter"]
    /\ UNCHANGED <<rules, DEFAULT_ACTION, connRoot, natRules, logs, logNum, jiffies,
                   pend, lost, logger, conn_timer, loaded>>

LockEnter ==
    \E c \in Loggers :
        \/ \E pkt \in {TcpA1, IcmpA1} :
              /\ Len(connRoot) < MaxConns
              /\ Len(logs) < MaxLog
              /\ Enter(c, [op |-> "hook_main", pkt |-> pkt], HookMainLocks(pkt))
        \/ \E rule \in RuleInputs :
              /\ Len(rules) < MaxRules
              /\ Enter(c, [op |-> "REQ_ADDIPRule", rule |-> rule], AddIPRuleLocks(rule))
        \/ \E name \in RuleNames :
              Enter(c, [op |-> "REQ_DELIPRule", name |-> name], DelIPRuleLocks(name))
        \/ \E action \in Actions :
              Enter(c, [op |-> "REQ_SETAction", action |-> action], SetActionLocks(action))
        \/ Enter(c, [op |-> "conn_timer_callback"],
                 EraseLocks(Len(connRoot) - Len(rollConn(connRoot, jiffies))))

\* the handler's next read_lock, write_lock or unlock
LockStep ==
    \E c \in Loggers :
        /\ cpu[c].state = "run"
        /\ cpu[c].todo # <<>>
        /\ cpu' = [cpu EXCEPT ![c].todo = Tail(@),
                              ![c].held = IF Head(cpu[c].todo).f = "unlock"
                                          THEN @ \ {Head(cpu[c].todo).l}
                                          ELSE @ \cup {Head(cpu[c].todo).l}]
        /\ last' = [op |-> Head(cpu[c].todo).f, l |-> Head(cpu[c].todo).l]
        /\ UNCHANGED <<rules, DEFAULT_ACTION, connRoot, natRules, logs, logNum, jiffies,
                       pend, lost, logger, conn_timer, loaded>>

\* the handler returns; what it did to the structures shows now
Leaves(c, op) ==
    /\ cpu[c].state = "run"
    /\ cpu[c].todo = <<>>
    /\ cpu[c].req.op = op
    /\ cpu' = [cpu EXCEPT ![c] = Idle]
    /\ UNCHANGED <<pend, conn_timer, loaded>>

NextLock ==
    \/ LockEnter
    \/ LockStep
    \/ \E c \in Loggers : Leaves(c, "hook_main") /\ HookMainOn({cpu[c].req.pkt})
    \/ \E c \in Loggers :
          Leaves(c, "REQ_ADDIPRule") /\ AddIPRuleUpTo({cpu[c].req.rule}, {""}, MaxRules)
    \/ \E c \in Loggers : Leaves(c, "REQ_DELIPRule") /\ DelIPRuleOn({cpu[c].req.name})
    \/ \E c \in Loggers : Leaves(c, "REQ_SETAction") /\ SetActionOn({cpu[c].req.action})
    \/ \E c \in Loggers : Leaves(c, "conn_timer_callback") /\ conn_timer_callback
    \/ /\ \A d \in Loggers : cpu[d].state = "idle"
       /\ TickOn(TickSteps)
       /\ UNCHANGED <<pend, rest>>

SpecLock == Init /\ [][NextLock]_vars

\* ------------------------------------------- the module from load to exit --

\* the timer expires: conn_timer_callback starts and runs rollConn
ExitTimerFire ==
    /\ conn_timer = "pending"
    /\ conn_timer_callback
    /\ conn_timer' = "running"
    /\ UNCHANGED <<pend, cpu, loaded>>

\* conn_timer_callback, its last statement: mod_timer arms the timer again
ExitTimerRearm ==
    /\ conn_timer = "running"
    /\ conn_timer' = "pending"
    /\ last' = [op |-> "mod_timer"]
    /\ UNCHANGED <<rules, DEFAULT_ACTION, connRoot, natRules, logs, logNum, jiffies,
                   pend, lost, logger, cpu, loaded>>

\* the timer expires after the module text is gone: the call of the callback
\* may as well fault instead of sweeping
ExitTimerOops ==
    /\ ~loaded
    /\ conn_timer = "pending"
    /\ conn_timer' = "off"
    /\ last' = [op |-> "oops"]
    /\ UNCHANGED <<rules, DEFAULT_ACTION, connRoot, natRules, logs, logNum, jiffies,
                   pend, lost, logger, cpu, loaded>>

\* mod_exit: the hooks are unregistered, netlink_release, conn_exit; del_timer
\* takes a pending timer off and leaves a callback that is running alone
mod_exit ==
    /\ loaded
    /\ loaded' = FALSE
    /\ conn_timer' = IF conn_timer = "pending" THEN "off" ELSE conn_timer
    /\ last' = [op |-> "mod_exit"]
    /\ UNCHANGED <<rules, DEFAULT_ACTION, connRoot, natRules, logs, logNum, jiffies,
                   pend, lost, logger, cpu>>

NextExit ==
    \/ loaded /\ HookMainOn({TcpA1, IcmpA1}) /\ UNCHANGED <<pend, rest>>
    \/ loaded /\ AddIPRuleOn(RuleInputs) /\ UNCHANGED <<pend, rest>>
    \/ loaded /\ DelIPRuleOn(RuleNames) /\ UNCHANGED <<pend, rest>>
    \/ TickOn(TickSteps) /\ UNCHANGED <<pend, rest>>
    \/ ExitTimerFire
    \/ ExitTimerRearm
    \/ ExitTimerOops
    \/ mod_exit

SpecExit == Init /\ [][NextExit]_vars

\* ----------------------------------- a datagram's way through a hook point --

NF_INET_PRE_ROUTING == 0
NF_INET_POST_ROUTING == 4
NF_IP_PRI_FIRST == -2147483647 - 1
NF_IP_PRI_NAT_DST == -100
NF_IP_PRI_NAT_SRC == 100

\* what mod_init registers: nfop_in, nfop_out, natop_in, natop_out
nf_hook_ops ==
    { [hook |-> "hook_main", hooknum |-> NF_INET_PRE_ROUTING, priority |-> NF_IP_PRI_FIRST],
      [hook |-> "hook_main", hooknum |-> NF_INET_POST_ROUTING, priority |-> NF_IP_PRI_FIRST],
      [hook |-> "hook_nat_in", hooknum |-> NF_INET_PRE_ROUTING, priority |-> NF_IP_PRI_NAT_DST],
      [hook |-> "hook_nat_out", hooknum |-> NF_INET_POST_ROUTING,
       priority |-> NF_IP_PRI_NAT_SRC] }

\* a descending order of call
RECURSIVE ByPriorityDown(_)
ByPriorityDown(S) ==
    IF S = {} THEN <<>>
    ELSE LET h == CHOOSE h \in S : \A g \in S : h.priority >= g.priority
         IN <<h.hook>> \o ByPriorityDown(S \ {h})

HooksAtDown(hooknum) == ByPriorityDown({h \in nf_hook_ops : h.hooknum = hooknum})

\* netfilter calls the hooks of a hook point in ascending priority
RECURSIVE ByPriority(_)
ByPriority(S) ==
    IF S = {} THEN <<>>
    ELSE LET h == CHOOSE h \in S : \A g \in S : h.priority <= g.priority
         IN <<h.hook>> \o ByPriority(S \ {h})

HooksAt(hooknum) == ByPriority({h \in nf_hook_ops : h.hooknum = hooknum})

\* a datagram arrives at a hook point on CPU c: from the wire at PRE_ROUTING,
\* from this host at POST_ROUTING
PathEnter ==
    \E c \in Loggers, hooknum \in {NF_INET_PRE_ROUTING, NF_INET_POST_ROUTING},
       pkt \in {TcpA1, ReplyLo} :
        /\ cpu[c].state = "idle"
        /\ Len(connRoot) + 2 <= MaxConns
        /\ Len(logs) < MaxLog
        /\ cpu' = [cpu EXCEPT ![c] = [state |-> "nf_hook", hooknum |-> hooknum,
                                      pkt |-> pkt, todo |-> HooksAt(hooknum),
                                      here |-> <<>>, rewritten |-> FALSE]]
        /\ last' = [op |-> "nf_hook", pkt |-> pkt]
        /\ UNCHANGED <<rules, DEFAULT_ACTION, connRoot, natRules, logs, logNum, jiffies,
                       pend, lost, logger, conn_timer, loaded>>

\* the datagram goes on as pkt after hook has returned verdict: nowhere on
\* NF_DROP; on NF_ACCEPT to the next hook of the hook point and, past the last
\* hook of PRE_ROUTING, either to this host or (forward) to POST_ROUTING
Passed(c, hook, verdict, pkt, forward) ==
    [cpu EXCEPT ![c] =
        IF verdict # NF_ACCEPT THEN Idle
        ELSE IF Tail(cpu[c].todo) # <<>>
        THEN [cpu[c] EXCEPT !.todo = Tail(@), !.here = Append(@, hook), !.pkt = pkt,
                            !.rewritten = @ \/ pkt # cpu[c].pkt]
        ELSE IF cpu[c].hooknum = NF_INET_PRE_ROUTING /\ forward
        THEN [cpu[c] EXCEPT !.hooknum = NF_INET_POST_ROUTING,
                            !.todo = HooksAt(NF_INET_POST_ROUTING),
                            !.here = <<>>, !.pkt = pkt,
                            !.rewritten = @ \/ pkt # cpu[c].pkt]
        ELSE Idle]

Calls(c, hook) ==
    /\ cpu[c].state = "nf_hook"
    /\ Head(cpu[c].todo) = hook

PathHookMain ==
    \E c \in Loggers, forward \in BOOLEAN :
        /\ Calls(c, "hook_main")
        /\ HookMainOn({cpu[c].pkt})
        /\ cpu' = Passed(c, "hook_main", last'.verdict, cpu[c].pkt, forward)
        /\ UNCHANGED <<pend, conn_timer, loaded>>

PathHookNatIn ==
    \E c \in Loggers, forward \in BOOLEAN :
        /\ Calls(c, "hook_nat_in")
        /\ HookNatInOn({cpu[c].pkt})
        /\ cpu' = Passed(c, "hook_nat_in", NF_ACCEPT, last'.out, forward)
        /\ UNCHANGED <<pend, conn_timer, loaded>>

PathHookNatOut ==
    \E c \in Loggers, forward \in BOOLEAN :
        /\ Calls(c, "hook_nat_out")
        /\ HookNatOutOn({cpu[c].pkt})
        /\ cpu' = Passed(c, "hook_nat_out", NF_ACCEPT, last'.out, forward)
        /\ UNCHANGED <<pend, conn_timer, loaded>>

NextPath ==
    \/ PathEnter
    \/ PathHookMain
    \/ PathHookNatIn
    \/ PathHookNatOut
    \/ AddNATRuleOn({NATRule(Addr(1, 0), MaskNet, NatT, NatLo, NatLo, NatLo)}) /\ UNCHANGED <<pend, rest>>
    \/ AddIPRuleUpTo({RuleB}, {""}, 1) /\ UNCHANGED <<pend, rest>>
    \/ DelIPRuleOn({"b"}) /\ UNCHANGED <<pend, rest>>
    \/ SetActionOn(Actions) /\ UNCHANGED <<pend, rest>>

SpecPath == Init /\ [][NextPath]_vars

\* ------------------------- the filter with datagrams of two protocols --

NextProto ==
    \/ HookMainOn({TcpA1, UdpA1, TcpA2}) /\ UNCHANGED <<pend, rest>>
    \/ AddIPRuleOn({RuleA, RuleZ}) /\ UNCHANGED <<pend, rest>>
    \/ DelIPRuleOn({"a", "z"}) /\ UNCHANGED <<pend, rest>>
    \/ SetActionOn(Actions) /\ UNCHANGED <<pend, rest>>
    \/ conn_timer_callback /\ UNCHANGED <<pend, rest>>
    \/ TickOn(TickSteps) /\ UNCHANGED <<pend, rest>>

SpecProto == Init /\ [][NextProto]_vars

\* ------------------------------------------------------ properties --

RuleHits(rule, pkt) ==
    matchOneRule(rule, pkt.sip, pkt.dip, getPort(pkt).sport, getPort(pkt).dport,
                 pkt.protocol)

Missed == last.op = "hook_main" /\ ~last.hit

\* C1: on a table miss, when some rule matches the datagram, the verdict is
\* the action of the first matching rule in list order, whatever the later
\* rules and the default verdict are
C1_FirstMatchVerdict ==
    Missed =>
        \A i \in 1 .. Len(rules) :
            (/\ RuleHits(rules[i], last.pkt)
             /\ \A j \in 1 .. i - 1 : ~RuleHits(rules[j], last.pkt))
            => last.verdict = rules[i].action

C1_Witness ==
    /\ Missed
    /\ Len(rules) = 2
    /\ RuleHits(rules[1], last.pkt)
    /\ RuleHits(rules[2], last.pkt)
    /\ rules[1].action # rules[2].action
    /\ DEFAULT_ACTION # rules[1].action
    /\ last.verdict = rules[1].action

\* C2: on a table miss, when no rule matches the datagram, the verdict is the
\* default verdict in force; the default is admit at start-up, SetAction(v)
\* makes it v, and no other operation changes it
C2_DefaultVerdict ==
    /\ [](Missed /\ (\A i \in 1 .. Len(rules) : ~RuleHits(rules[i], last.pkt))
          => last.verdict = DEFAULT_ACTION)
    /\ [](last.op = "mod_init" => DEFAULT_ACTION = NF_ACCEPT)
    /\ [](last.op = "REQ_SETAction" => DEFAULT_ACTION = last.v)
    /\ [][last'.op # "REQ_SETAction" => DEFAULT_ACTION' = DEFAULT_ACTION]_vars

C2_Witness ==
    /\ Missed
    /\ Len(rules) > 0
    /\ \A i \in 1 .. Len(rules) : ~RuleHits(rules[i], last.pkt)
    /\ DEFAULT_ACTION = NF_DROP
    /\ last.verdict = NF_DROP

\* C3: after SetAction(drop) the connection table is empty
C3_DropFlushesAll ==
    (last.op = "REQ_SETAction" /\ last.v = NF_DROP) => connRoot = <<>>

FlowRelated(node, rule) ==
    MatchAddrPort(rule, node.key[1], node.key[2],
                  RangeMin(node.key[3]), RangeMax(node.key[3]))

\* the entries of tree that satisfy the address and port predicates of no
\* rule of the set, in the order of the tree
Unrelated(tree, ruleSet) ==
    SelectSeq(tree, LAMBDA node : \A rule \in ruleSet : ~FlowRelated(node, rule))

Named(chain, name) == {chain[i] : i \in {j \in 1 .. Len(chain) : chain[j].name = name}}

\* C4: right after a successful add of a non-admit rule, and right after
\* delete(name), the table holds exactly the entries it held before that do not
\* satisfy the address and port predicates of the added rule or of a deleted
\* rule, whatever their protocol; those entries are unchanged
C4_EraseRelated ==
    [][/\ (last'.op = "REQ_ADDIPRule" /\ last'.ok /\ last'.rule.action # NF_ACCEPT)
          => connRoot' = Unrelated(connRoot, {last'.rule})
       /\ last'.op = "REQ_DELIPRule"
          => connRoot' = Unrelated(connRoot, Named(rules, last'.name))]_vars

\* a drop rule was added with success, it erased two flows and left two
C4_Witness ==
    /\ last.op = "REQ_ADDIPRule"
    /\ last.ok
    /\ last.rule.action = NF_DROP
    /\ last.erased = 2
    /\ Len(connRoot) = 2

\* the entries that were allocated and never freed
Entries == {connRoot[i] : i \in 1 .. Len(connRoot)} \cup lost

\* C5: the table holds at most one entry per key, and every entry is found by
\* a lookup of its own key
C5_OnePerKeyFound ==
    /\ \A i, j \in 1 .. Len(connRoot) : connRoot[i].key = connRoot[j].key => i = j
    /\ \A m, n \in Entries : m.key = n.key => m = n
    /\ \A n \in Entries :
          /\ searchNode(connRoot, n.key) # 0
          /\ connRoot[searchNode(connRoot, n.key)] = n

IsSNAT(node) == node.natType = NAT_TYPE_SRC

\* C6: no two snat flows of the table carry the same post-NAT (address, port)
C6_UniquePostNAT ==
    \A i, j \in 1 .. Len(connRoot) :
        (/\ IsSNAT(connRoot[i])
         /\ IsSNAT(connRoot[j])
         /\ connRoot[i].nat.daddr = connRoot[j].nat.daddr
         /\ connRoot[i].nat.dport = connRoot[j].nat.dport)
        => i = j

\* C7: every snat flow (A,P) -> (D,Q) rewritten to (T,p) has in the table an
\* entry of key (D, T, Q, p) that is dnat and rewrites back to (A,P)
C7_ReversePaired ==
    \A i \in 1 .. Len(connRoot) :
        IsSNAT(connRoot[i]) =>
            \E j \in 1 .. Len(connRoot) :
                /\ connRoot[j].key = ConnKey(connRoot[i].key[2], connRoot[i].nat.daddr,
                                             RangeMax(connRoot[i].key[3]),
                                             connRoot[i].nat.dport)
                /\ connRoot[j].natType = NAT_TYPE_DEST
                /\ connRoot[j].nat.daddr = connRoot[i].key[1]
                /\ connRoot[j].nat.dport = RangeMin(connRoot[i].key[3])

\* a snat flow of the table holds (addr, port)
Held(tree, addr, port) ==
    \E i \in 1 .. Len(tree) :
        /\ IsSNAT(tree[i])
        /\ tree[i].nat.daddr = addr
        /\ tree[i].nat.dport = port

AllHeld(tree, rule) == \A port \in rule.sport .. rule.dport : Held(tree, rule.daddr, port)

Allocating == last.op = "hook_nat_out" /\ last.called

\* C8: when every port of the rule's range is held, the allocator comes back
\* with 0 and NAT-out passes the datagram as it is, its flow without a record
C8_ExhaustedReturns ==
    [][(Allocating' /\ AllHeld(connRoot, natRules[last'.rule]))
       => /\ last'.returns
          /\ last'.newPort = 0
          /\ last'.out = last'.pkt
          /\ connRoot' = connRoot]_vars

\* C9: a port p the allocator returns for a rule of target T and range
\* [lo, hi] has lo <= p <= hi and was held by no snat flow of the table the
\* allocator scanned
C9_PortFreeInRange ==
    [][(Allocating' /\ last'.returns /\ last'.newPort # 0)
       => /\ natRules[last'.rule].sport <= last'.newPort
          /\ last'.newPort <= natRules[last'.rule].dport
          /\ ~Held(connRoot, natRules[last'.rule].daddr, last'.newPort)]_vars

\* the allocator returned the high port of a two-port range whose low port
\* was held
C9_Witness ==
    /\ Allocating
    /\ last.returns
    /\ last.newPort = NatHi
    /\ natRules[last.rule].sport = NatLo
    /\ Held(connRoot, NatT, NatLo)
    /\ Held(connRoot, NatT, NatHi)

\* C10: the allocator returns no port only when every port of the range is
\* held
C10_NoPortOnlyExhausted ==
    [][(Allocating' /\ last'.returns /\ last'.newPort = 0)
       => AllHeld(connRoot, natRules[last'.rule])]_vars

\* the snat flows of tree whose rewritten datagrams a reply pkt answers:
\* flows (A,P) -> (D,Q) rewritten to (T,p), for a reply (D,Q) -> (T,p)
AnsweredBy(tree, pkt) ==
    {i \in 1 .. Len(tree) :
        /\ IsSNAT(tree[i])
        /\ tree[i].key[2] = pkt.sip
        /\ RangeMax(tree[i].key[3]) = getPort(pkt).sport
        /\ tree[i].nat.daddr = pkt.dip
        /\ tree[i].nat.dport = getPort(pkt).dport}

\* C11: a reply (D,Q) -> (T,p) to a flow that NAT-out rewrote from (A,P) to
\* (T,p) leaves NAT-in with destination (A,P) and nothing else changed, as long
\* as the reverse entry is in the table; a datagram whose flow is absent or has
\* no dnat record leaves NAT-in as it came
C11_ReplyRewritten ==
    [][last'.op = "hook_nat_in" =>
        /\ PktNode(connRoot, last'.pkt) # 0 =>
              \A i \in AnsweredBy(connRoot, last'.pkt) :
                  /\ last'.out.dip = connRoot[i].key[1]
                  /\ getPort(last'.out).dport = RangeMin(connRoot[i].key[3])
                  /\ last'.out.sip = last'.pkt.sip
                  /\ getPort(last'.out).sport = getPort(last'.pkt).sport
        /\ (\/ PktNode(connRoot, last'.pkt) = 0
            \/ connRoot[PktNode(connRoot, last'.pkt)].natType # NAT_TYPE_DEST)
           => last'.out = last'.pkt]_vars

\* the flow of the node was in tree and is in tree2
Stays(tree, tree2, node) == searchNode(tree2, node.key) # 0

\* C12: a flow that carries a snat record keeps that record for as long as it
\* is in the table; NAT-out of a datagram of such a flow does not call the
\* allocator and rewrites the source to the record's post-NAT address and port
C12_RecordReused ==
    [][\A i \in 1 .. Len(connRoot) :
          IsSNAT(connRoot[i]) =>
             /\ Stays(connRoot, connRoot', connRoot[i]) =>
                   /\ IsSNAT(connRoot'[searchNode(connRoot', connRoot[i].key)])
                   /\ connRoot'[searchNode(connRoot', connRoot[i].key)].nat
                        = connRoot[i].nat
             /\ (last'.op = "hook_nat_out" /\ PktNode(connRoot, last'.pkt) = i) =>
                   /\ ~last'.called
                   /\ last'.rewritten
                   /\ last'.out.sip = connRoot[i].nat.daddr
                   /\ getPort(last'.out).sport = connRoot[i].nat.dport]_vars

\* NAT-out rewrote a datagram of a flow whose record was already there, after
\* the rule that made the record had been deleted
C12_Witness ==
    /\ last.op = "hook_nat_out"
    /\ last.rewritten
    /\ ~last.called
    /\ natRules = <<>>
    /\ last.out.sport = NatHi
    /\ jiffies > 0

\* C13: the deadline of a flow never decreases while the flow is in the table
C13_DeadlineMonotone ==
    [][\A i \in 1 .. Len(connRoot) :
          Stays(connRoot, connRoot', connRoot[i]) =>
             connRoot'[searchNode(connRoot', connRoot[i].key)].expires
                >= connRoot[i].expires]_vars

\* no rule of the chain and not the default would admit the datagram
WouldDrop(chain, default, pkt) ==
    filterAction(chain, matchIPRules(chain, pkt), default) = NF_DROP

\* C14: a datagram whose key is in the table is admitted without a look at the
\* rules, also when the entry's deadline has passed and the sweep has not
\* removed it yet; the hit sets the deadline to now + CONN_EXPIRES, and a sweep
\* that runs right after the hit leaves the entry in the table
C14_StaleHitAdmitted ==
    [][/\ (last'.op = "hook_main" /\ PktNode(connRoot, last'.pkt) # 0) =>
             /\ last'.hit
             /\ last'.verdict = NF_ACCEPT
             /\ PktNode(connRoot', last'.pkt) # 0
             /\ connRoot'[PktNode(connRoot', last'.pkt)].expires
                   = jiffies + CONN_EXPIRES * HZ
       /\ (last.op = "hook_main" /\ last.hit /\ last'.op = "conn_timer_callback") =>
             /\ PktNode(connRoot', last.pkt) # 0
             /\ connRoot'[PktNode(connRoot', last.pkt)]
                   = connRoot[PktNode(connRoot, last.pkt)]]_vars

\* the hit of an entry whose deadline had passed, for a datagram that the
\* rules and the default would drop
C14_Witness ==
    /\ last.op = "hook_main"
    /\ last.hit
    /\ last.stale
    /\ last.verdict = NF_ACCEPT
    /\ WouldDrop(rules, DEFAULT_ACTION, last.pkt)
    /\ jiffies = CONN_EXPIRES * HZ
    /\ connRoot[PktNode(connRoot, last.pkt)].expires = jiffies + CONN_EXPIRES * HZ

\* the entries of tree whose deadline is greater than now, in tree order
Fresh(tree, now) == SelectSeq(tree, LAMBDA node : node.expires > now)

C16_UnknownAfterFails ==
    [][(/\ last'.op = "REQ_ADDIPRule"
        /\ last'.after # ""
        /\ findName(rules, 1, last'.after) = 0)
       => /\ ~last'.ok
          /\ rules' = rules]_vars

\* C17: an add that fails leaves the rule list and the connection table as
\* they were
C17_FailedAddNoEffect ==
    [][(last'.op = "REQ_ADDIPRule" /\ ~last'.ok)
       => /\ rules' = rules
          /\ connRoot' = connRoot]_vars

\* C18: a successful add with an empty after_name puts the rule at the head;
\* with another after_name it puts the rule right behind the first rule of
\* that name; the rules that were there keep their order and contents
C18_InsertPosition ==
    [][(last'.op = "REQ_ADDIPRule" /\ last'.ok) =>
          IF last'.after = ""
          THEN rules' = <<last'.rule>> \o rules
          ELSE /\ findName(rules, 1, last'.after) # 0
               /\ rules' = InsertAt(rules, findName(rules, 1, last'.after),
                                    last'.rule)]_vars

\* the rules of chain that are not called name, in chain order
Others(chain, name) == SelectSeq(chain, LAMBDA rule : rule.name # name)

C20_UniqueNames ==
    \A i, j \in 1 .. Len(rules) : rules[i].name = rules[j].name => i = j

\* the first rule of chain that matches pkt drops it
DropsFirst(chain, pkt) ==
    /\ matchIPRules(chain, pkt) # 0
    /\ chain[matchIPRules(chain, pkt)].action # NF_ACCEPT

\* C21: a datagram that an admit rule and a later drop rule both match is
\* admitted; delete of the admit rule takes the flows of the datagrams it
\* matches out of the table, so the next datagram of the five-tuple is a miss
\* and the drop rule, now the first that matches, drops it
C21_DeleteEndsAdmission ==
    /\ [][last'.op = "REQ_DELIPRule" =>
            \A pkt \in ChainPackets :
                (\E rule \in Named(rules, last'.name) : RuleHits(rule, pkt))
                   => PktNode(connRoot', pkt) = 0]_vars
    /\ [][(/\ last'.op = "hook_main"
           /\ PktNode(connRoot, last'.pkt) = 0) =>
             /\ ~last'.hit
             /\ DropsFirst(rules, last'.pkt) =>
                   /\ last'.verdict = NF_DROP
                   /\ PktNode(connRoot', last'.pkt) = 0
             /\ (/\ matchIPRules(rules, last'.pkt) # 0
                 /\ ~DropsFirst(rules, last'.pkt)) => last'.verdict = NF_ACCEPT]_vars

\* delete("a") took the admit rule that stood with the drop rule "b" and
\* erased a flow with it; TcpA1 has no flow and "b" is what it meets next
C21_Witness ==
    /\ last.op = "REQ_DELIPRule"
    /\ last.name = "a"
    /\ last.count = 1
    /\ last.erased >= 1
    /\ rules = <<RuleB>>
    /\ PktNode(connRoot, TcpA1) = 0
    /\ DropsFirst(rules, TcpA1)

PktKey(pkt) == ConnKey(pkt.sip, pkt.dip, getPort(pkt).sport, getPort(pkt).dport)

\* the flow of pkt was in the table when the last request, a delete, began
WasEstablished(pkt) ==
    /\ last.op = "REQ_DELIPRule"
    /\ last.count > 0
    /\ PktKey(pkt) \in last.gone \cup Keys(connRoot)

\* no rule matches pkt and the default verdict is drop
OnlyDefaultDrop(pkt) ==
    /\ DEFAULT_ACTION = NF_DROP
    /\ matchIPRules(rules, pkt) = 0

\* C22 as claimed: after the delete of the rule that admitted it, a flow that
\* was established is still hit by its next datagram, which is admitted
\* without a look at the rules (default drop, no other rule matching)
C22_AdmittedAfterDelete ==
    [][(/\ last'.op = "hook_main"
        /\ WasEstablished(last'.pkt)
        /\ \E r \in RuleInputs : r.name = last.name /\ RuleHits(r, last'.pkt)
        /\ OnlyDefaultDrop(last'.pkt))
       => /\ last'.hit
          /\ last'.verdict = NF_ACCEPT]_vars

\* C22 amended: the delete of a rule erases the flows the rule matches, the
\* flow it admitted among them; the next datagram of an erased flow is a miss
\* and gets the verdict of the rules and the default (drop, with default drop
\* and no other rule matching); a flow the delete left in the table is hit and
\* admitted without a look at the rules
C22_ErasedWithRule ==
    /\ [][last'.op = "REQ_DELIPRule" =>
            \A i \in 1 .. Len(connRoot) :
                (\E rule \in Named(rules, last'.name) : FlowRelated(connRoot[i], rule))
                   => connRoot[i].key \in last'.gone]_vars
    /\ [][(last'.op = "hook_main" /\ WasEstablished(last'.pkt)) =>
            IF PktKey(last'.pkt) \in last.gone
            THEN /\ ~last'.hit
                 /\ last'.verdict = filterAction(rules, matchIPRules(rules, last'.pkt),
                                                 DEFAULT_ACTION)
                 /\ OnlyDefaultDrop(last'.pkt) => last'.verdict = NF_DROP
            ELSE /\ last'.hit
                 /\ last'.verdict = NF_ACCEPT]_vars

\* the one rule of the list was deleted under default drop and the flow it
\* had admitted went with it
C22_Witness ==
    /\ last.op = "REQ_DELIPRule"
    /\ last.count = 1
    /\ last.gone = {PktKey(TcpA1)}
    /\ rules = <<>>
    /\ DEFAULT_ACTION = NF_DROP
    /\ OnlyDefaultDrop(TcpA1)

\* the datagram of the step is a hit of a flow whose log flag is set or clear
HitFlagged(flag) ==
    /\ last'.op = "hook_main"
    /\ PktNode(connRoot, last'.pkt) # 0
    /\ (connRoot[PktNode(connRoot, last'.pkt)].needLog # 0) = flag

\* C23 as claimed: the datagrams of an established flow that a logging rule
\* admitted are admitted on the hit and leave the log buffer as it is
C23_HitNeverLogs ==
    [][HitFlagged(TRUE) =>
          /\ last'.verdict = NF_ACCEPT
          /\ logs' = logs]_vars

\* the rule a miss of pkt meets logs and admits
AdmitsLogging(chain, pkt) ==
    /\ matchIPRules(chain, pkt) # 0
    /\ chain[matchIPRules(chain, pkt)].action = NF_ACCEPT
    /\ chain[matchIPRules(chain, pkt)].log # 0

\* C23 amended: a flow takes the log flag of the rule that admits it; every
\* later datagram of a flow whose flag is set is admitted on the hit and adds
\* one entry, with verdict admit, at the tail of the log buffer; a hit of a
\* flow whose flag is clear leaves the buffer as it is
C23_HitLogsIfFlagged ==
    /\ [][(last'.op = "hook_main" /\ ~last'.hit /\ last'.verdict = NF_ACCEPT) =>
            /\ PktNode(connRoot', last'.pkt) # 0
            /\ (connRoot'[PktNode(connRoot', last'.pkt)].needLog # 0)
                  = AdmitsLogging(rules, last'.pkt)]_vars
    /\ [][HitFlagged(TRUE) =>
            /\ last'.hit
            /\ last'.verdict = NF_ACCEPT
            /\ logs' = Append(logs, LogOfSKB(jiffies, NF_ACCEPT, last'.pkt))
            /\ logNum' = logNum + 1]_vars
    /\ [][HitFlagged(FALSE) =>
            /\ last'.hit
            /\ logs' = logs
            /\ logNum' = logNum]_vars

\* the first datagram of a flow was logged by the rule, the second by the hit
C23_Witness ==
    /\ last.op = "hook_main"
    /\ last.hit
    /\ Len(logs) = 2
    /\ logs[1] = LogOfSKB(0, NF_ACCEPT, last.pkt)
    /\ logs[2] = LogOfSKB(jiffies, NF_ACCEPT, last.pkt)
    /\ logNum = 2

\* C24: in every state, the states between an entry's linking and the trim
\* included, the log chain holds at most MAX_LOG_LEN entries and logNum is
\* the number of entries linked
C24_LogBounded ==
    /\ Len(logs) <= MAX_LOG_LEN
    /\ logNum = Len(logs)

\* no addLog is under way
LogQuiet == \A c \in Loggers : logger[c] = "idle"

Min(a, b) == IF a < b THEN a ELSE b

\* the last k of n pushed entries, oldest first
LastPushed(n, k) == [i \in 1 .. k |-> LogOfSKB(n - k + i, NF_ACCEPT, TcpA1)]

C26_ConsistentPair ==
    [][\A c \in Loggers :
          (cpu[c].state = "hook_main" /\ cpu'[c].state = "idle" /\ ~last'.hit) =>
              last'.verdict \in cpu[c].seen]_vars

\* C27: no handler (hook, sweep, request) holds two of the structure locks
\* at the same time
C27_OneLockAtATime ==
    \A c \in Loggers :
        cpu[c].state = "run" => Cardinality(cpu[c].held) <= 1

\* C28: once mod_exit has returned the sweep is neither armed nor running,
\* and the filter list, the connection table and the log chain are empty
C28_TeardownClean ==
    ~loaded =>
        /\ conn_timer = "off"
        /\ rules = <<>>
        /\ connRoot = <<>>
        /\ logs = <<>>

SameFour(tree, pkt) ==
    {i \in 1 .. Len(tree) :
        tree[i].key = <<pkt.sip, pkt.dip, PackRange(pkt.sport, pkt.dport)>>}

\* C30: a datagram whose source and destination address and port are those
\* of a flow in the table that a datagram of another protocol opened hits
\* that flow: it is admitted, no rule and no default is consulted, no flow is
\* added and the entry keeps the protocol it was opened with
C30_LookupIgnoresProtocol ==
    [][(/\ last'.op = "hook_main"
        /\ last'.pkt.protocol \in {IPPROTO_TCP, IPPROTO_UDP}
        /\ \E i \in SameFour(connRoot, last'.pkt) :
              connRoot[i].protocol # last'.pkt.protocol) =>
          /\ last'.hit
          /\ last'.verdict = NF_ACCEPT
          /\ Len(connRoot') = Len(connRoot)
          /\ \A i \in SameFour(connRoot', last'.pkt) :
                connRoot'[i].protocol # last'.pkt.protocol]_vars

\* a UDP datagram was admitted on the flow a TCP datagram had opened, though
\* rules and default drop it
C30_Witness ==
    /\ last.op = "hook_main"
    /\ last.pkt = UdpA1
    /\ last.hit
    /\ last.verdict = NF_ACCEPT
    /\ \E i \in SameFour(connRoot, UdpA1) : connRoot[i].protocol = IPPROTO_TCP
    /\ Verdict(rules, DEFAULT_ACTION, UdpA1) = NF_DROP

\* a packed port range admits port: it is 0 (any port) or port lies in it
AnyIfZero(range, port) ==
    \/ range = PackRange(0, 0)
    \/ (port >= RangeMin(range) /\ port <= RangeMax(range))

\* C31: a rule whose packed source (destination) port range is 0 matches a
\* datagram whatever its source (destination) port, once addresses, protocol
\* and the other port range fit
C31_ZeroMeansAnyPort ==
    \A i \in 1 .. Len(rules) : \A pkt \in {TcpA1, UdpA1, TcpA2} :
        (/\ isIPMatch(pkt.sip, rules[i].saddr, rules[i].smask)
         /\ isIPMatch(pkt.dip, rules[i].daddr, rules[i].dmask)
         /\ (rules[i].protocol = IPPROTO_IP \/ rules[i].protocol = pkt.protocol)
         /\ AnyIfZero(rules[i].sport, getPort(pkt).sport)
         /\ AnyIfZero(rules[i].dport, getPort(pkt).dport)) =>
            matchOneRule(rules[i], pkt.sip, pkt.dip, getPort(pkt).sport,
                         getPort(pkt).dport, pkt.protocol)


\* C32: with no snat flow in the table, the first flow NAT-out translates
\* under a rule of range [lo, hi], lo < hi, is given the port lo + 1
C32_FirstPortIsSecond ==
    [][(/\ Allocating'
        /\ last'.returns
        /\ natRules[last'.rule].sport < natRules[last'.rule].dport
        /\ \A i \in 1 .. Len(connRoot) : ~IsSNAT(connRoot[i]))
       => last'.newPort = natRules[last'.rule].sport + 1]_vars


\* ------------------------------------- common.h: addresses as strings --
\* A string is the sequence of its characters.  An unsigned int is held here
\* as its four bytes, most significant first.

MaxSegs == 5
MaxPrefix == 33

Digits == <<"0", "1", "2", "3", "4", "5", "6", "7", "8", "9">>

\* c - '0' for the characters IPstr2IPint lets through ('.' is 46, '/' 47,
\* '0' 48)
Minus0(c) ==
    IF c = "." THEN -2
    ELSE IF c = "/" THEN -1
    ELSE (CHOOSE d \in 0 .. 9 : Digits[d + 1] = c)

\* sprintf("%u", n)
RECURSIVE sprintfU(_)
sprintfU(n) ==
    IF n < 10 THEN <<Digits[n + 1]>>
    ELSE sprintfU(n \div 10) \o <<Digits[(n % 10) + 1]>>

RECURSIVE maskLen(_, _, _, _)
\* the loop that looks for '/' and reads what follows it as the prefix
\* length: [p, len].  len is unsigned: a negative value here stands for
\* 2^32 + len (the strings read are too short to wrap further)
maskLen(ipStr, i, p, len) ==
    IF i >= Len(ipStr) THEN [p |-> p, len |-> len]
    ELSE IF p # -1 THEN maskLen(ipStr, i + 1, p, len * 10 + Minus0(ipStr[i + 1]))
    ELSE IF ipStr[i + 1] = "/" THEN maskLen(ipStr, i + 1, i, len)
    ELSE maskLen(ipStr, i + 1, p, len)

RECURSIVE addrLoop(_, _, _, _, _, _)
\* the loop over the characters in front of '/' and the statements behind it:
\* [ret, ip].  A '.' read with count > 3 shifts by 8 * (3 - count), which is
\* not defined; whatever it leaves in r_ip, count stays above 3 and the
\* function returns -2 without storing r_ip
addrLoop(ipStr, i, end, tmp, count, r_ip) ==
    LET \* r_ip | (tmp << (8 * (4 - k))) for tmp < 256
        or(k) == [r_ip EXCEPT ![k] = r_ip[k] + tmp - BitAnd(r_ip[k], tmp)]
        t == tmp * 10 + Minus0(ipStr[i + 1])
    IN IF i >= end
       THEN (IF count <= 3 THEN [ret |-> 0, ip |-> or(4)] ELSE [ret |-> -2, ip |-> r_ip])
       ELSE IF ipStr[i + 1] = "."
            THEN addrLoop(ipStr, i + 1, end, 0, count + 1,
                          IF count <= 3 THEN or(count + 1) ELSE r_ip)
       ELSE IF t > 255 \/ count > 3 THEN [ret |-> -2, ip |-> r_ip]
       ELSE addrLoop(ipStr, i + 1, end, t, count, r_ip)

\* IPstr2IPint: [ret, ip, mask]; ip and mask are stored only when ret = 0
IPstr2IPint(ipStr) ==
    LET m == maskLen(ipStr, 0, -1, 0)
        \* 0xFFFFFFFF << (32 - len)
        shl == [k \in 1 .. 4 |->
                   LET ones == IF m.len - 8 * (k - 1) > 8 THEN 8
                               ELSE IF m.len - 8 * (k - 1) < 0 THEN 0
                               ELSE m.len - 8 * (k - 1)
                   IN 256 - 2 ^ (8 - ones)]
        r_mask == IF m.p # -1 THEN (IF m.len # 0 THEN shl ELSE <<0, 0, 0, 0>>)
                  ELSE <<255, 255, 255, 255>>
        a == addrLoop(ipStr, 0, IF m.p >= 0 THEN m.p ELSE Len(ipStr), 0, 0, <<0, 0, 0, 0>>)
        fail == [ret |-> -1, ip |-> <<0, 0, 0, 0>>, mask |-> <<0, 0, 0, 0>>]
    IN IF \E i \in 1 .. Len(ipStr) : ipStr[i] \notin {Digits[d] : d \in 1 .. 10} \cup {".", "/"}
       THEN fail
       ELSE IF \/ m.len < 0
               \/ m.len > 32
               \/ (m.p >= 0 /\ m.p < 7 /\ Len(ipStr) > m.len /\ ipStr[1] # "0")
            THEN fail
       ELSE IF a.ret # 0 THEN [fail EXCEPT !.ret = a.ret]
       ELSE [ret |-> 0, ip |-> a.ip, mask |-> r_mask]

\* a printer that leaves the prefix length out, as IPint2IPstrNoMask does
IPint2IPstrNoMask(ip, mask) ==
    sprintfU(ip[1]) \o <<".">> \o sprintfU(ip[2]) \o <<".">> \o sprintfU(ip[3])
        \o <<".">> \o sprintfU(ip[4])

\* IPint2IPstr: "%u.%u.%u.%u/%u", the last number being what the loop
\* for (maskNum = 0; m & 0x80000000 && maskNum < 32; ++maskNum, m <<= 1)
\* leaves in maskNum (0 for mask 0)
IPint2IPstr(ip, mask) ==
    LET bit(j) == (mask[(j \div 8) + 1] \div (2 ^ (7 - (j % 8)))) % 2
        ones[j \in 0 .. 32] ==
            IF j = 32 THEN 0 ELSE IF bit(j) = 0 THEN 0 ELSE 1 + ones[j + 1]
        maskNum == IF mask = <<0, 0, 0, 0>> THEN 0 ELSE ones[0]
    IN sprintfU(ip[1]) \o <<".">> \o sprintfU(ip[2]) \o <<".">> \o sprintfU(ip[3])
           \o <<".">> \o sprintfU(ip[4]) \o <<"/">> \o sprintfU(maskNum)

\* the strings handed to the parser: one to MaxSegs segments, followed by
\* nothing, by '/' and a number up to MaxPrefix, or by an irregular tail
IPStrings ==
    LET Segs == {<<>>, <<"0">>, <<"2", "5", "5">>, <<"2", "5", "6">>}
        Tails == {<<>>, <<"/">>, <<"/", "1", ".">>, <<"/", "/">>, <<"/", "8", "x">>}
                     \cup {<<"/">> \o sprintfU(n) : n \in 0 .. MaxPrefix}
        \* the first n segments joined by '.'
        Dotted(segs) ==
            LET join[n \in 1 .. Len(segs)] ==
                    IF n = 1 THEN segs[1] ELSE join[n - 1] \o <<".">> \o segs[n]
            IN join[Len(segs)]
    IN {Dotted(segs) \o tail :
            segs \in UNION {[1 .. n -> Segs] : n \in 1 .. MaxSegs}, tail \in Tails}

InitStr ==
    /\ rules = <<>>
    /\ DEFAULT_ACTION = NF_ACCEPT
    /\ connRoot = <<>>
    /\ natRules = <<>>
    /\ logs = <<>>
    /\ logNum = 0
    /\ jiffies = 0
    /\ \E s \in IPStrings : last = [op |-> "argv", ipStr |-> s]
    /\ pend = [t \in Erasers |-> Idle]
    /\ lost = {}
    /\ logger = [c \in Loggers |-> "idle"]
    /\ cpu = [c \in Loggers |-> Idle]
    /\ conn_timer = "pending"
    /\ loaded = TRUE

\* the string is parsed, the pair printed, the print parsed again
NextStr ==
    \/ /\ last.op = "argv"
       /\ \E r \in {IPstr2IPint(last.ipStr)} :
              last' = [op |-> "IPstr2IPint", ipStr |-> last.ipStr, ret |-> r.ret,
                       ip |-> r.ip, mask |-> r.mask]
       /\ UNCHANGED <<rules, DEFAULT_ACTION, connRoot, natRules, logs, logNum, jiffies,
                      pend, lost, logger, rest>>
    \/ /\ last.op = "IPstr2IPint"
       /\ last.ret = 0
       /\ last' = [op |-> "IPint2IPstr", ipStr |-> IPint2IPstr(last.ip, last.mask),
                   from |-> last]
       /\ UNCHANGED <<rules, DEFAULT_ACTION, connRoot, natRules, logs, logNum, jiffies,
                      pend, lost, logger, rest>>
    \/ /\ last.op = "IPint2IPstr"
       /\ \E r \in {IPstr2IPint(last.ipStr)} :
              last' = [op |-> "again", ipStr |-> last.ipStr, ret |-> r.ret,
                       ip |-> r.ip, mask |-> r.mask, from |-> last.from]
       /\ UNCHANGED <<rules, DEFAULT_ACTION, connRoot, natRules, logs, logNum, jiffies,
                      pend, lost, logger, rest>>

SpecStr == InitStr /\ [][NextStr]_vars

\* C33: a string IPstr2IPint accepts, parsed to (ip, mask), printed by
\* IPint2IPstr and parsed again gives the same (ip, mask), with a prefix
\* length 0..32 and with none
C33_RoundTrip ==
    (last.op = "again") =>
        /\ last.ret = 0
        /\ last.ip = last.from.ip
        /\ last.mask = last.from.mask

\* a string of two segments and the prefix length 8, not the string printed
\* for its pair, came back as the same pair
C33_Witness ==
    /\ last.op = "again"
    /\ last.from.ipStr = <<"2", "5", "5", ".", "0", "/", "8">>
    /\ last.ipStr = <<"2", "5", "5", ".", "0", ".", "0", ".", "0", "/", "8">>
    /\ last.mask = <<255, 0, 0, 0>>
    /\ last.ret = 0


\* ----------------------- a lookup's node and the erasers, two CPUs --
\* searchNode hands its caller the node after read_unlock; hasConn then takes
\* the write lock in addConnExpires, and hook_main reads needLog.  A node
\* erased in between is freed memory: the write lands where nothing lives
\* (no effect seen) or in a node kzalloc handed out since; the flag read is
\* either value.

\* the holders of a node of gone now hold a dangling pointer, and new is what
\* kzalloc has handed out since
Stale(gone, new) ==
    [c \in Loggers |->
        IF cpu[c].state = "hasConn" /\ cpu[c].found
        THEN [cpu[c] EXCEPT !.freed = @ \/ PktKey(cpu[c].pkt) \in gone,
                            !.since = IF cpu[c].freed THEN @ \cup new ELSE @]
        ELSE cpu[c]]

NextUse ==
    \* hasConn: searchNode, up to its read_unlock
    \/ \E c \in Loggers, pkt \in {TcpA1, TcpA2} :
          /\ cpu[c].state = "idle"
          /\ cpu' = [cpu EXCEPT ![c] = [state |-> "hasConn", pkt |-> pkt,
                                        found |-> PktNode(connRoot, pkt) # 0,
                                        freed |-> FALSE, since |-> {}]]
          /\ last' = [op |-> "searchNode", pkt |-> pkt]
          /\ UNCHANGED <<rules, DEFAULT_ACTION, connRoot, natRules, logs, logNum, jiffies,
                         pend, lost, logger, conn_timer, loaded>>
    \* a hit on a node that is in the tree: addConnExpires, the log, NF_ACCEPT
    \/ \E c \in Loggers :
          /\ cpu[c].state = "hasConn"
          /\ cpu[c].found
          /\ ~cpu[c].freed
          /\ HookMainOn({cpu[c].pkt})
          /\ cpu' = [cpu EXCEPT ![c] = Idle]
          /\ UNCHANGED <<pend, conn_timer, loaded>>
    \* a hit on a node that was erased since
    \/ \E c \in Loggers :
          /\ cpu[c].state = "hasConn"
          /\ cpu[c].found
          /\ cpu[c].freed
          /\ \/ connRoot' = connRoot
             \/ \E i \in 1 .. Len(connRoot) :
                   /\ connRoot[i].key \in cpu[c].since
                   /\ connRoot' = addConnExpires(connRoot, i, jiffies, CONN_EXPIRES)
          /\ \E needLog \in {0, 1} :
             \E r \in {IF needLog # 0
                       THEN addLogBySKB(logs, logNum, jiffies, NF_ACCEPT, cpu[c].pkt)
                       ELSE [chain |-> logs, num |-> logNum]} :
                /\ Len(r.chain) <= MaxLog
                /\ logs' = r.chain
                /\ logNum' = r.num
          /\ last' = [op |-> "hook_main", pkt |-> cpu[c].pkt, verdict |-> NF_ACCEPT,
                      hit |-> TRUE, stale |-> TRUE]
          /\ cpu' = [cpu EXCEPT ![c] = Idle]
          /\ UNCHANGED <<rules, DEFAULT_ACTION, natRules, jiffies, pend, lost, logger,
                         conn_timer, loaded>>
    \* a miss: matchIPRules, the log, addConn (the node is built and handed to
    \* insertNode, which finds the tree as it is by then)
    \/ \E c \in Loggers :
          /\ cpu[c].state = "hasConn"
          /\ ~cpu[c].found
          /\ Len(connRoot) < MaxConns
          /\ \E r \in {hook_main(rules, DEFAULT_ACTION, <<>>, logs, logNum, jiffies,
                                 cpu[c].pkt)} :
                /\ Len(r.logs) <= MaxLog
                /\ connRoot' = IF r.tree # <<>> THEN insertNode(connRoot, r.tree[1]).tree
                               ELSE connRoot
                /\ logs' = r.logs
                /\ logNum' = r.logNum
                /\ last' = [op |-> "hook_main", pkt |-> cpu[c].pkt, verdict |-> r.verdict,
                            hit |-> FALSE, stale |-> FALSE]
          /\ cpu' = [Stale({}, Keys(connRoot') \ Keys(connRoot)) EXCEPT ![c] = Idle]
          /\ UNCHANGED <<rules, DEFAULT_ACTION, natRules, jiffies, pend, lost, logger,
                         conn_timer, loaded>>
    \/ /\ conn_timer_callback
       /\ cpu' = Stale(Keys(connRoot) \ Keys(connRoot'), {})
       /\ UNCHANGED <<pend, conn_timer, loaded>>
    \/ /\ AddIPRuleOn({RuleB})
       /\ cpu' = Stale(Keys(connRoot) \ Keys(connRoot'), {})
       /\ UNCHANGED <<pend, conn_timer, loaded>>
    \/ DelIPRuleOn({"b"}) /\ UNCHANGED <<pend, rest>>
    \/ TickOn(TickSteps) /\ UNCHANGED <<pend, rest>>

SpecUse == Init /\ [][NextUse]_vars

\* C34: the entry a lookup returned is in the table at every later access its
\* caller makes to it: no context refreshes the deadline of, or reads the
\* fields of, an entry that has been erased
C34_EntryStillLinked ==
    [][\A c \in Loggers :
          (cpu[c].state = "hasConn" /\ cpu[c].found /\ cpu'[c] = Idle) => ~cpu[c].freed]_vars


\* C35: with the sweep and erase_related (each: find a victim under the
\* shared lock, release, erase under the exclusive lock) side by side, every
\* erase acts on an entry that is in the table: none is erased twice
C35_VictimErasedOnce ==
    [][\A t \in Erasers :
          (pend[t].state = "found" /\ pend'[t].state = "scan") => ~pend[t].freed]_vars

\* C36: the entry the sweep removes has a deadline <= now at the moment of
\* removal; an entry refreshed by a hit after the sweep chose it stays
C36_SweepOnlyExpired ==
    [][(/\ pend["rollConn"].state = "found"
        /\ pend'["rollConn"].state = "scan"
        /\ ~pend["rollConn"].freed)
       => isTimeout(jiffies,
                    connRoot[searchNode(connRoot, pend["rollConn"].key)].expires)]_vars


\* C37: once set_default(drop) or the add of a rule that does not admit has
\* returned, no filter invocation that was under way inserts a flow the
\* policy now in force refuses: a flow is inserted only for a datagram that
\* the rules and the default of that moment admit
C37_NoInsertAfterFlush ==
    [][(last'.op = "hook_main" /\ ~last'.hit /\ last'.verdict = NF_ACCEPT)
       => /\ PktNode(connRoot', last'.pkt) # 0
          /\ Verdict(rules, DEFAULT_ACTION, last'.pkt) = NF_ACCEPT]_vars


\* C38: a datagram from the peer (D,Q) to (T,p) that NAT-in rewrites, while a
\* snat flow towards (D,Q) holds (T,p), is given the original source of such
\* a flow as its destination: no reverse entry of an earlier flow serves the
\* flow that holds (T,p) now
C38_RewritesToHolder ==
    [][(/\ last'.op = "hook_nat_in"
        /\ last'.out # last'.pkt
        /\ AnsweredBy(connRoot, last'.pkt) # {})
       => \E i \in AnsweredBy(connRoot, last'.pkt) :
              /\ last'.out.dip = connRoot[i].key[1]
              /\ getPort(last'.out).dport = RangeMin(connRoot[i].key[3])]_vars


\* ------------------ a request and the softirq that interrupts it --
\* One processor.  cpu[1] is the process context in which the netlink input
\* runs a request, cpu[2] the softirq (a hook on the receive path, the timer)
\* that interrupts it.  The locks are taken with read_lock and write_lock,
\* which leave bottom halves enabled: a softirq may begin between any two
\* steps of the request, and the request goes on only when the softirq has
\* returned.  read_lock spins while another context holds the lock for
\* writing, write_lock while another context holds it at all.  held keeps
\* the lock with the way it was taken.

\* the next step of context c is a read_lock or write_lock that the lock's
\* holder in the other context keeps spinning
Spins(c) ==
    /\ cpu[c].state = "run"
    /\ cpu[c].todo # <<>>
    /\ Head(cpu[c].todo).f # "unlock"
    /\ \E d \in Loggers \ {c} :
          /\ cpu[d].state = "run"
          /\ \E h \in cpu[d].held :
                /\ h.l = Head(cpu[c].todo).l
                /\ (h.f = "write_lock" \/ Head(cpu[c].todo).f = "write_lock")

NextWait ==
    \* a request arrives on the netlink socket
    \/ \E rule \in RuleInputs :
          /\ Len(rules) < MaxRules
          /\ Enter(1, [op |-> "REQ_ADDIPRule", rule |-> rule], AddIPRuleLocks(rule))
    \/ \E name \in RuleNames :
          Enter(1, [op |-> "REQ_DELIPRule", name |-> name], DelIPRuleLocks(name))
    \* a softirq begins, on top of the request if one is under way
    \/ \E pkt \in {TcpA1, IcmpA1} :
          /\ cpu[2].state = "idle"
          /\ Len(connRoot) < MaxConns
          /\ cpu' = [cpu EXCEPT ![2] = [state |-> "run",
                                        req |-> [op |-> "hook_main", pkt |-> pkt],
                                        todo |-> HookMainLocks(pkt), held |-> {}]]
          /\ last' = [op |-> "enter"]
          /\ UNCHANGED <<rules, DEFAULT_ACTION, connRoot, natRules, logs, logNum, jiffies,
                         pend, lost, logger, conn_timer, loaded>>
    \/ /\ cpu[2].state = "idle"
       /\ cpu' = [cpu EXCEPT ![2] =
                     [state |-> "run", req |-> [op |-> "conn_timer_callback"],
                      todo |-> EraseLocks(Len(connRoot) - Len(rollConn(connRoot, jiffies))),
                      held |-> {}]]
       /\ last' = [op |-> "enter"]
       /\ UNCHANGED <<rules, DEFAULT_ACTION, connRoot, natRules, logs, logNum, jiffies,
                      pend, lost, logger, conn_timer, loaded>>
    \* the next read_lock, write_lock or unlock of the context that runs
    \/ \E c \in Loggers :
          /\ cpu[c].state = "run"
          /\ cpu[c].todo # <<>>
          /\ c = 1 => cpu[2].state = "idle"
          /\ ~Spins(c)
          /\ cpu' = [cpu EXCEPT ![c].todo = Tail(@),
                                ![c].held = IF Head(cpu[c].todo).f = "unlock"
                                            THEN {h \in @ : h.l # Head(cpu[c].todo).l}
                                            ELSE @ \cup {Head(cpu[c].todo)}]
          /\ last' = [op |-> Head(cpu[c].todo).f, l |-> Head(cpu[c].todo).l]
          /\ UNCHANGED <<rules, DEFAULT_ACTION, connRoot, natRules, logs, logNum, jiffies,
                         pend, lost, logger, conn_timer, loaded>>
    \* the softirq returns, the request is answered
    \/ Leaves(2, "hook_main") /\ HookMainOn({cpu[2].req.pkt})
    \/ Leaves(2, "conn_timer_callback") /\ conn_timer_callback
    \/ /\ cpu[2].state = "idle"
       /\ Leaves(1, "REQ_ADDIPRule")
       /\ AddIPRuleUpTo({cpu[1].req.rule}, {""}, MaxRules)
    \/ /\ cpu[2].state = "idle"
       /\ Leaves(1, "REQ_DELIPRule")
       /\ DelIPRuleOn({cpu[1].req.name})

SpecWait == Init /\ [][NextWait]_vars

\* C39: no context is left waiting for ever for a structure lock: a context
\* never spins on a lock whose holder cannot run before the spinning ends
C39_NoWaitForever == ~Spins(2)


\* ------------------------------------------- the sweep timer on the clock --

\* conn_init: the timer is set to expire CONN_ROLL_INTERVAL seconds from now
InitTimer ==
    /\ rules = <<>>
    /\ DEFAULT_ACTION = NF_ACCEPT
    /\ connRoot = <<>>
    /\ natRules = <<>>
    /\ logs = <<>>
    /\ logNum = 0
    /\ jiffies = 0
    /\ last = [op |-> "mod_init"]
    /\ pend = [t \in Erasers |-> Idle]
    /\ lost = {}
    /\ logger = [c \in Loggers |-> "idle"]
    /\ cpu = [c \in Loggers |-> Idle]
    /\ conn_timer = [expires |-> timeFromNow(0, CONN_ROLL_INTERVAL)]
    /\ loaded = TRUE

NextTimer ==
    \/ /\ jiffies <= ArriveBy
       /\ HookMainOn({TcpA1, TcpA2})
       /\ UNCHANGED <<pend, rest>>
    \/ /\ jiffies <= ArriveBy
       /\ HookNatOutOn({TcpA1})
       /\ UNCHANGED <<pend, rest>>
    \/ /\ jiffies <= ArriveBy
       /\ AddNATRuleOn({NATRule(Addr(1, 0), MaskNet, NatT, NatLo, NatHi, NatLo)})
       /\ UNCHANGED <<pend, rest>>
    \* the timer expires: conn_timer_callback sweeps, then mod_timer sets the
    \* timer CONN_ROLL_INTERVAL seconds from now
    \/ /\ jiffies >= conn_timer.expires
       /\ conn_timer_callback
       /\ conn_timer' = [expires |-> timeFromNow(jiffies, CONN_ROLL_INTERVAL)]
       /\ UNCHANGED <<pend, cpu, loaded>>
    \* one jiffy passes; the timer fires no later than at its expiry
    \/ /\ jiffies < conn_timer.expires
       /\ jiffies < MaxClock
       /\ jiffies' = jiffies + 1
       /\ last' = [op |-> "tick"]
       /\ UNCHANGED <<rules, DEFAULT_ACTION, connRoot, natRules, logs, logNum, pend,
                      lost, logger, cpu, conn_timer, loaded>>

SpecTimer == InitTimer /\ [][NextTimer]_vars

\* C40: with the sweep timer firing every CONN_ROLL_INTERVAL seconds, no entry
\* is in the table later than CONN_ROLL_INTERVAL seconds after its deadline;
\* the deadline of a flow is CONN_EXPIRES seconds after hook_main refreshed it
\* and CONN_EXPIRES x CONN_NAT_TIMES seconds after NAT-out rewrote it
C40_RemovedInTime ==
    /\ [](\A i \in 1 .. Len(connRoot) :
             jiffies <= connRoot[i].expires + CONN_ROLL_INTERVAL * HZ)
    /\ [][(last'.op = "hook_main" /\ last'.verdict = NF_ACCEPT)
          => connRoot'[PktNode(connRoot', last'.pkt)].expires
                = jiffies + CONN_EXPIRES * HZ]_vars
    /\ [][(last'.op = "hook_nat_out" /\ last'.rewritten)
          => connRoot'[PktNode(connRoot', last'.pkt)].expires
                = jiffies + CONN_EXPIRES * CONN_NAT_TIMES * HZ]_vars

\* the sweep removed a flow that NAT-out refreshed, after its deadline and
\* within CONN_ROLL_INTERVAL seconds of it
C40_Witness ==
    /\ last.op = "conn_timer_callback"
    /\ last.erased > 0
    /\ jiffies >= CONN_EXPIRES * CONN_NAT_TIMES * HZ
    /\ connRoot = <<>>

=============================================================================
